---- MODULE Spec2Model ----
(***************************************************************************)
(* A model of injectipy's dependency store (src/injectipy/store.py): the   *)
(* registry and the cache of InjectipyStore, its reentrant registry lock,  *)
(* the registration operations with their duplicate, signature and         *)
(* circular-dependency checks, and the lookup __getitem__ with the         *)
(* recursive resolution of Inject parameters done by _resolve.             *)
(*                                                                         *)
(* Every thread runs one public operation at a time.  An operation is a    *)
(* frame on the thread's call stack; a lookup that resolves an Inject      *)
(* parameter pushes a nested __getitem__ frame, as self[key] does in       *)
(* _resolve.  A frame first takes the registry lock ("lock"), then runs    *)
(* the statements of its with-block.                                       *)
(***************************************************************************)
EXTENDS Naturals, Sequences, FiniteSets, TLC

\* Number of public operations started in one behaviour.
MaxOps == 3

Threads == {"t1", "t2"}
NoThread == "none"

\* Store keys, static values and parameter names are strings.
Keys == {"a", "b", "c"}
Values == {"v1", "v2"}

(***************************************************************************)
(* Python objects.  One record shape for all of them, so that any two can  *)
(* be compared: a static value, the object a resolver body returned (named *)
(* after the key, the number of the invocation that made it, and the       *)
(* arguments the body received), an Inject marker, inspect.Parameter.empty *)
(* and "no object" (a key missing from a dict, an argument not supplied).  *)
(***************************************************************************)
NoVal == [tag |-> "absent", key |-> "", n |-> 0, args |-> <<>>]
Empty == [tag |-> "empty", key |-> "", n |-> 0, args |-> <<>>]
None == [tag |-> "None", key |-> "", n |-> 0, args |-> <<>>]
Val(v) == [tag |-> "value", key |-> v, n |-> 0, args |-> <<>>]
Obj(k, n, args) == [tag |-> "object", key |-> k, n |-> n, args |-> args]

\* Inject[key]: the marker object that stores the key to look up.
Inject(k) == [tag |-> "Inject", key |-> k, n |-> 0, args |-> <<>>]
isinstance_Inject(o) == o.tag = "Inject"
get_inject_key(o) == o.key

\* Exceptions: the type, what raised it, and the key it is about.
NoExc == [key |-> "", type |-> "", origin |-> ""]
Exc(type, origin, key) == [key |-> key, type |-> type, origin |-> origin]

(***************************************************************************)
(* Resolvers: the parameter list inspect.signature reports (name, kind,    *)
(* default) and what the body does when it runs: return a new object, or   *)
(* raise.                                                                  *)
(***************************************************************************)
Param(name, kind, default) == [name |-> name, kind |-> kind, default |-> default]
Resolver(params, body) == [params |-> params, body |-> body]
NoResolver == Resolver(<<>>, "none")

\* lambda: object()   /   a body that raises ValueError, or KeyError
Plain(body) == Resolver(<<>>, body)
\* lambda dep=Inject[d]: ...
WithInject(d) == Resolver(<<Param("dep", "POSITIONAL_OR_KEYWORD", Inject(d))>>, "return")
\* lambda a: ...  and  lambda a="d": ...   (a parameter named like the key "a")
ByName(default) == Resolver(<<Param("a", "POSITIONAL_OR_KEYWORD", default)>>, "return")
\* lambda *args: ...
VarArgs == Resolver(<<Param("args", "VAR_POSITIONAL", Empty)>>, "return")

\* The (resolver, evaluate_once) pairs a caller registers.
Registrations ==
    ({Plain("return"), Plain("ValueError"), Plain("KeyError")} \X BOOLEAN)
    \cup ({WithInject(d) : d \in Keys} \X BOOLEAN)
    \cup ({ByName(Empty), ByName(Val("d")), VarArgs} \X {FALSE})

(***************************************************************************)
(* The store.  registry[k] is the dict entry of k: absent, a raw value, or *)
(* _StoreResolverWithArgs(resolver, evaluate_once).  cache[k] is NoVal     *)
(* when k is not in the cache dict.                                        *)
(***************************************************************************)
Absent == [kind |-> "absent", value |-> NoVal, resolver |-> NoResolver, evaluate_once |-> FALSE]
ValueEntry(v) == [kind |-> "value", value |-> v, resolver |-> NoResolver, evaluate_once |-> FALSE]
_StoreResolverWithArgs(resolver, evaluate_once) ==
    [kind |-> "resolver", value |-> NoVal, resolver |-> resolver, evaluate_once |-> evaluate_once]

VARIABLES
    registry,   \* self._registry
    cache,      \* self._cache
    lock,       \* self._registry_lock: owner and recursion count
    stack,      \* per thread, the frames of the running operation
    nops,       \* operations started so far
    calls,      \* per key, how often its resolver was called (line 260)
    returns,    \* per key, how often that call returned an object
    lookups,    \* per key, how many __getitem__ calls that found it have ended
    aborted,    \* per key, how many of them a dependency's exception ended
    bodyExc,    \* per thread, the exception a resolver raised in this operation
    ev          \* the call that ended in the last step, if one did

storeVars == <<registry, cache, lock, stack, nops, calls, returns, lookups, aborted, bodyExc, ev>>

(***************************************************************************)
(* Scopes.  A DependencyScope has a registry, a cache and an active flag of *)
(* its own.  Every execution context (a thread, an asyncio task) has its    *)
(* own value of the scope stack, which get_active_scopes() returns, and its *)
(* own open with-blocks.  Scopes are entered and exited by with-statements. *)
(***************************************************************************)
\* Number of scope operations started in one behaviour.
MaxScopeOps == 6
\* How deep one resolution nests lookups before the interpreter gives up.
MaxDepth == 3

Scopes == {"s1", "s2"}

VARIABLES
    scope_registry, \* per scope, self._registry
    scope_cache,    \* per scope, self._cache
    is_active,      \* per scope, the flag is_active() returns
    scope_stack,    \* per context, the value of the scope stack
    with_blocks,    \* per context, the scopes whose with-block is open, in entry order
    inherited,      \* per context, the scopes it was started with and has not cleared
    cleared,        \* per context, how many open with-blocks are no longer on its stack
    started,        \* per context: "no", or how it was started ("main", "thread", "task")
    sops,           \* scope operations started so far
    sev             \* the scope operation that ended in the last step

\* A lookup seen lock by lock, for the threads that share scopes.
VARIABLES
    scope_lock,      \* per scope, self._lock: a threading.RLock
    resolving,       \* per thread, the lookups in progress, the outermost first
    resolving_chain  \* per thread, the scopes its lookup in progress searches

scopeLocks == <<scope_lock, resolving, resolving_chain>>

scopeVars == <<scope_registry, scope_cache, is_active, scope_stack, with_blocks,
               inherited, cleared, started, sops, sev, scopeLocks>>

NoScopeEvent == [key |-> "", kind |-> "", c |-> NoThread, fn |-> "", scope |-> "",
                 given |-> <<>>, chain |-> <<>>, val |-> NoVal, exc |-> NoExc]

\* DependencyScope(): empty, inactive.  One context, the main thread, runs.
ScopeInit ==
    /\ scope_registry = [s \in Scopes |-> [k \in Keys |-> Absent]]
    /\ scope_cache = [s \in Scopes |-> [k \in Keys |-> NoVal]]
    /\ is_active = [s \in Scopes |-> FALSE]
    /\ scope_stack = [c \in Threads |-> <<>>]
    /\ with_blocks = [c \in Threads |-> <<>>]
    /\ inherited = [c \in Threads |-> <<>>]
    /\ cleared = [c \in Threads |-> 0]
    /\ started = [c \in Threads |-> IF c = "t1" THEN "main" ELSE "no"]
    /\ sops = 0
    /\ sev = NoScopeEvent
    /\ scope_lock = [s \in Scopes |-> [owner |-> NoThread, count |-> 0]]
    /\ resolving = [t \in Threads |-> <<>>]
    /\ resolving_chain = [t \in Threads |-> <<>>]

(***************************************************************************)
(* The class InjectipyStore and the module global injectipy_store.  The     *)
(* module body constructs injectipy_store when it is imported, before any   *)
(* caller can reach the class: in the first state the one instance exists   *)
(* and is initialized, and its registry, cache and lock are the variables   *)
(* above.                                                                   *)
(***************************************************************************)
\* Number of calls InjectipyStore() in one behaviour.
MaxConstructions == 2

NoInstance == 0

VARIABLES
    cls_instance,    \* InjectipyStore._instance: the number of the object, or NoInstance
    cls_initialized, \* self._initialized of that object
    created,         \* objects made by super().__new__(cls) so far
    handle,          \* per thread, the object its last InjectipyStore() returned
    seen,            \* per thread, the keys that were registered when it was returned
    ncons            \* calls InjectipyStore() so far

classVars == <<cls_instance, cls_initialized, created, handle, seen, ncons>>

\* injectipy_store = InjectipyStore()  (the last statement of the module)
injectipy_store == 1

ClassInit ==
    /\ cls_instance = injectipy_store
    /\ cls_initialized = TRUE
    /\ created = 1
    /\ handle = [t \in Threads |-> NoInstance]
    /\ seen = [t \in Threads |-> {}]
    /\ ncons = 0

(***************************************************************************)
(* A function decorated with @inject.  The decorator keeps the function's   *)
(* defaults as it found them (original_defaults, original_kwdefaults); the  *)
(* wrapper it returns overwrites the function's __defaults__ and            *)
(* __kwdefaults__ for the time of a call.                                   *)
(***************************************************************************)
\* Number of calls of the decorated function in one behaviour.
MaxCalls == 2

NoFunc == Resolver(<<>>, "none")
NoCall == [val |-> NoVal, exc |-> NoExc, pc |-> "idle", i |-> 1, new |-> <<>>,
           explicit |-> {}, ran |-> FALSE]
NoWrapperEvent == [kind |-> "", val |-> NoVal, exc |-> NoExc, t |-> NoThread, explicit |-> {},
                   ran |-> FALSE, cause |-> NoExc]

VARIABLES
    original_func,   \* the decorated function: its parameters and what its body does
    __defaults__,    \* original_func.__defaults__: the defaults of the positional parameters
    __kwdefaults__,  \* original_func.__kwdefaults__: the defaults of the keyword-only ones
    wrapper,         \* per thread, its call of the wrapper in progress
    ncalls,          \* calls of the wrapper so far
    wev              \* the call of the wrapper that ended in the last step

wrapperVars == <<original_func, __defaults__, __kwdefaults__, wrapper, ncalls, wev>>

WrapperInit ==
    /\ original_func = NoFunc
    /\ __defaults__ = <<>>
    /\ __kwdefaults__ = <<>>
    /\ wrapper = [t \in Threads |-> NoCall]
    /\ ncalls = 0
    /\ wev = NoWrapperEvent

\* What an operation of the store, or of the scopes, leaves alone.
outsideStore == <<scopeVars, classVars, wrapperVars>>
outsideScopes == <<storeVars, classVars, wrapperVars>>

vars == <<storeVars, scopeVars, classVars, wrapperVars>>

NoEvent == [key |-> "", kind |-> "", fn |-> "", val |-> NoVal, exc |-> NoExc,
            t |-> NoThread, depth |-> 0]

Frame(fn, key, value, resolver, evaluate_once) ==
    [key |-> key, args |-> <<>>, value |-> value, resolver |-> resolver,
     evaluate_once |-> evaluate_once, fn |-> fn, pc |-> "lock", i |-> 1]

Top(t) == stack[t][Len(stack[t])]
Front(s) == SubSeq(s, 1, Len(s) - 1)
SetTop(s, f) == [s EXCEPT ![Len(s)] = f]
At(t, fn, pc) == stack[t] /= <<>> /\ Top(t).fn = fn /\ Top(t).pc = pc

Zero == [k \in Keys |-> 0]

\* __init__: an empty registry and cache and a free lock.
Init ==
    /\ registry = [k \in Keys |-> Absent]
    /\ cache = [k \in Keys |-> NoVal]
    /\ lock = [owner |-> NoThread, count |-> 0]
    /\ stack = [t \in Threads |-> <<>>]
    /\ nops = 0
    /\ calls = Zero
    /\ returns = Zero
    /\ lookups = Zero
    /\ aborted = Zero
    /\ bodyExc = [t \in Threads |-> NoExc]
    /\ ev = NoEvent
    /\ ScopeInit
    /\ ClassInit
    /\ WrapperInit

(***************************************************************************)
(* threading.RLock: free, or held by one thread any number of times.       *)
(***************************************************************************)
\* An acquire that never waits for the owner.
RLock_acquire_unguarded(l, t) == TRUE
RLock_acquire(l, t) == l.owner = NoThread \/ l.owner = t
RLock_acquired(l, t) == [owner |-> t, count |-> l.count + 1]
RLock_release(l, n) ==
    IF l.count <= n THEN [owner |-> NoThread, count |-> 0]
    ELSE [owner |-> l.owner, count |-> l.count - n]


(***************************************************************************)
(* How a frame ends.  A frame that returns hands its value to the frame    *)
(* below it, which is a __getitem__ waiting in _resolve for self[key]; a   *)
(* frame that raises leaves its with-block (releasing the lock once) and   *)
(* the exception travels down the stack: _resolve's "except KeyError:      *)
(* pass" stops a KeyError and goes on with the next parameter, every other *)
(* exception ends the waiting frame too.                                   *)
(***************************************************************************)
\* A handler that catches nothing.
_resolve_except_nothing(e) == FALSE
\* except KeyError (the handler around self[param.default.get_inject_key()])
_resolve_except(e) == e.type = "KeyError"

RECURSIVE _unwind(_, _)
_unwind(below, e) ==
    IF below = <<>> THEN [stack |-> <<>>, popped |-> <<>>]
    ELSE LET caller == below[Len(below)] IN
         IF _resolve_except(e)
         THEN [stack |-> SetTop(below, [caller EXCEPT !.pc = "resolve",
                                                     !.args = Append(@, NoVal),
                                                     !.i = @ + 1]),
               popped |-> <<>>]
         ELSE LET r == _unwind(Front(below), e) IN
              [stack |-> r.stack, popped |-> <<caller>> \o r.popped]

\* The frames an exception raised by the top frame of t ends, innermost first.
Ended(t, e) == <<Top(t)>> \o _unwind(Front(stack[t]), e).popped

\* How many of the frames are lookups of k that had found k registered.
Count(frames, k) ==
    Cardinality({i \in 1..Len(frames) :
                    frames[i].fn = "getitem" /\ frames[i].key = k /\ frames[i].pc /= "body"})

Return(t, v) ==
    LET s == stack[t]
        rest == Front(s)
    IN  /\ lock' = RLock_release(lock, 1)
        /\ stack' = [stack EXCEPT ![t] =
                IF rest = <<>> THEN <<>>
                ELSE SetTop(rest, [rest[Len(rest)] EXCEPT !.pc = "resolve",
                                                         !.args = Append(@, v),
                                                         !.i = @ + 1])]
        /\ ev' = [key |-> Top(t).key, kind |-> "return", fn |-> Top(t).fn, val |-> v,
                  exc |-> NoExc, t |-> t, depth |-> Len(s)]

\* The exception handed to the caller as a result instead of being raised.
Raise_returning(t, e) == Return(t, e)

Raise(t, e) ==
    LET ended == Ended(t, e)
        last == ended[Len(ended)]
    IN  /\ lock' = RLock_release(lock, Len(ended))
        /\ stack' = [stack EXCEPT ![t] = _unwind(Front(stack[t]), e).stack]
        /\ ev' = [key |-> last.key, kind |-> "raise", fn |-> last.fn, val |-> NoVal,
                  exc |-> e, t |-> t, depth |-> Len(stack[t]) - Len(ended) + 1]

\* Bookkeeping of the lookups that end in a step.
LookupsAfterReturn(t) ==
    IF Top(t).fn = "getitem" THEN [lookups EXCEPT ![Top(t).key] = @ + 1] ELSE lookups
LookupsAfterRaise(t, e) == [k \in Keys |-> lookups[k] + Count(Ended(t, e), k)]
AbortedAfterRaise(t, e) == [k \in Keys |-> aborted[k] + Count(_unwind(Front(stack[t]), e).popped, k)]

(***************************************************************************)
(* A thread starts a public operation, and takes the lock on entering its  *)
(* with-block.                                                             *)
(***************************************************************************)
call(t, f) ==
    /\ stack[t] = <<>>
    /\ nops < MaxOps
    /\ stack' = [stack EXCEPT ![t] = <<f>>]
    /\ nops' = nops + 1
    /\ bodyExc' = [bodyExc EXCEPT ![t] = NoExc]
    /\ ev' = NoEvent
    /\ UNCHANGED <<registry, cache, lock, calls, returns, lookups, aborted>>
    /\ UNCHANGED outsideStore

\* with self._registry_lock:
acquire(t) ==
    /\ stack[t] /= <<>>
    /\ Top(t).pc = "lock"
    /\ RLock_acquire(lock, t)
    /\ lock' = RLock_acquired(lock, t)
    /\ stack' = [stack EXCEPT ![t] = SetTop(@, [Top(t) EXCEPT !.pc = "body"])]
    /\ ev' = NoEvent
    /\ UNCHANGED <<registry, cache, nops, calls, returns, lookups, aborted, bodyExc>>
    /\ UNCHANGED outsideStore

(***************************************************************************)
(* register_value(key, value)                                              *)
(***************************************************************************)
\* The duplicate test made on the resolved values instead of the registry.
_raise_if_key_already_cached(reg, key) == reg[key].kind = "value"
_raise_if_key_already_registered(reg, key) == reg[key].kind /= "absent"

register_value_check(t) ==
    /\ At(t, "register_value", "body")
    /\ LET f == Top(t) IN
       IF _raise_if_key_already_registered(registry, f.key)
       THEN LET e == Exc("ValueError", "duplicate", f.key) IN
            /\ Raise(t, e)
            /\ lookups' = LookupsAfterRaise(t, e)
            /\ aborted' = AbortedAfterRaise(t, e)
       ELSE /\ stack' = [stack EXCEPT ![t] = SetTop(@, [f EXCEPT !.pc = "write"])]
            /\ ev' = NoEvent
            /\ UNCHANGED <<lock, lookups, aborted>>
    /\ UNCHANGED <<registry, cache, nops, calls, returns, bodyExc>>
    /\ UNCHANGED outsideStore

register_value_write(t) ==
    /\ At(t, "register_value", "write")
    /\ LET f == Top(t) IN
       /\ registry' = [registry EXCEPT ![f.key] = ValueEntry(f.value)]
       /\ cache' = [cache EXCEPT ![f.key] = f.value]
    /\ Return(t, None)
    /\ lookups' = LookupsAfterReturn(t)
    /\ UNCHANGED <<nops, calls, returns, aborted, bodyExc>>
    /\ UNCHANGED outsideStore

register_value(t, K, V) ==
    \E k \in K, v \in V : call(t, Frame("register_value", k, Val(v), NoResolver, FALSE))


(***************************************************************************)
(* register_resolver(key, resolver, evaluate_once)                         *)
(***************************************************************************)
\* The check that only knows *args.
_validate_resolver_signature_var_positional(resolver) ==
    \E i \in 1..Len(resolver.params) : resolver.params[i].kind = "VAR_POSITIONAL"

\* A parameter that is neither POSITIONAL_OR_KEYWORD nor KEYWORD_ONLY is rejected.
_validate_resolver_signature(resolver) ==
    \E i \in 1..Len(resolver.params) :
        resolver.params[i].kind \notin {"POSITIONAL_OR_KEYWORD", "KEYWORD_ONLY"}

\* The keys of the parameters whose default is an Inject marker.
_get_resolver_dependencies(resolver) ==
    {get_inject_key(resolver.params[i].default) :
        i \in {j \in 1..Len(resolver.params) :
                 /\ resolver.params[j].default /= Empty
                 /\ isinstance_Inject(resolver.params[j].default)}}

\* The search with the registry test placed first: a key that is not registered
\* yet is never recognised as the target.
RECURSIVE _has_dependency_path_registered_first(_, _, _, _)
_has_dependency_path_registered_first(reg, from_key, to_key, visited) ==
    IF reg[from_key].kind = "absent" THEN FALSE
    ELSE IF from_key = to_key THEN TRUE
    ELSE IF from_key \in visited THEN FALSE
    ELSE IF reg[from_key].kind = "resolver"
         THEN \E dep_key \in _get_resolver_dependencies(reg[from_key].resolver) :
                 _has_dependency_path_registered_first(reg, dep_key, to_key, visited \cup {from_key})
         ELSE FALSE

RECURSIVE _has_dependency_path(_, _, _, _)
_has_dependency_path(reg, from_key, to_key, visited) ==
    IF from_key = to_key THEN TRUE
    ELSE IF from_key \in visited THEN FALSE
    ELSE IF reg[from_key].kind = "absent" THEN FALSE
    ELSE IF reg[from_key].kind = "resolver"
         THEN \E dep_key \in _get_resolver_dependencies(reg[from_key].resolver) :
                 _has_dependency_path(reg, dep_key, to_key, visited \cup {from_key})
         ELSE FALSE

\* TRUE when registering new_resolver under new_key is refused as circular.
_check_circular_dependencies(reg, new_key, new_resolver) ==
    \E dep_key \in _get_resolver_dependencies(new_resolver) :
        _has_dependency_path(reg, dep_key, new_key, {})

\* The three checks of register_resolver, in their order: the exception, or NoExc.
register_resolver_checks(reg, key, resolver) ==
    IF _raise_if_key_already_registered(reg, key) THEN Exc("ValueError", "duplicate", key)
    ELSE IF _validate_resolver_signature(resolver) THEN Exc("ValueError", "signature", key)
    ELSE IF _check_circular_dependencies(reg, key, resolver) THEN Exc("ValueError", "circular", key)
    ELSE NoExc

\* The entry committed before the circular-dependency check and left there
\* when the check raises.
register_resolver_check_commit_first(t) ==
    /\ At(t, "register_resolver", "body")
    /\ LET f == Top(t)
           e == register_resolver_checks(registry, f.key, f.resolver)
       IN  IF e /= NoExc
           THEN /\ Raise(t, e)
                /\ lookups' = LookupsAfterRaise(t, e)
                /\ aborted' = AbortedAfterRaise(t, e)
                /\ registry' = IF e.origin = "circular"
                               THEN [registry EXCEPT ![f.key] =
                                        _StoreResolverWithArgs(f.resolver, f.evaluate_once)]
                               ELSE registry
           ELSE /\ stack' = [stack EXCEPT ![t] = SetTop(@, [f EXCEPT !.pc = "write"])]
                /\ ev' = NoEvent
                /\ UNCHANGED <<registry, lock, lookups, aborted>>
    /\ UNCHANGED <<cache, nops, calls, returns, bodyExc>>
    /\ UNCHANGED outsideStore

register_resolver_check(t) ==
    /\ At(t, "register_resolver", "body")
    /\ LET f == Top(t)
           e == register_resolver_checks(registry, f.key, f.resolver)
       IN  IF e /= NoExc
           THEN /\ Raise(t, e)
                /\ lookups' = LookupsAfterRaise(t, e)
                /\ aborted' = AbortedAfterRaise(t, e)
           ELSE /\ stack' = [stack EXCEPT ![t] = SetTop(@, [f EXCEPT !.pc = "write"])]
                /\ ev' = NoEvent
                /\ UNCHANGED <<lock, lookups, aborted>>
    /\ UNCHANGED <<registry, cache, nops, calls, returns, bodyExc>>
    /\ UNCHANGED outsideStore

register_resolver_write(t) ==
    /\ At(t, "register_resolver", "write")
    /\ LET f == Top(t) IN
       registry' = [registry EXCEPT ![f.key] = _StoreResolverWithArgs(f.resolver, f.evaluate_once)]
    /\ Return(t, None)
    /\ lookups' = LookupsAfterReturn(t)
    /\ UNCHANGED <<cache, nops, calls, returns, aborted, bodyExc>>
    /\ UNCHANGED outsideStore

register_resolver(t, K, R) ==
    \E k \in K, r \in R : call(t, Frame("register_resolver", k, NoVal, r[1], r[2]))

(***************************************************************************)
(* __getitem__(key) and _resolve(resolver)                                 *)
(***************************************************************************)
\* if key in self._cache / if key in self._registry / raise KeyError
__getitem___check(t) ==
    /\ At(t, "getitem", "body")
    /\ LET f == Top(t)
           entry == registry[f.key]
           e == Exc("KeyError", "lookup", f.key)
       IN  IF cache[f.key] /= NoVal
           THEN /\ Return(t, cache[f.key])
                /\ lookups' = LookupsAfterReturn(t)
                /\ aborted' = aborted
           ELSE IF entry.kind = "resolver"
           THEN /\ stack' = [stack EXCEPT ![t] =
                        SetTop(@, [f EXCEPT !.pc = "resolve", !.resolver = entry.resolver,
                                            !.evaluate_once = entry.evaluate_once])]
                /\ ev' = NoEvent
                /\ UNCHANGED <<lock, lookups, aborted>>
           ELSE IF entry.kind = "value"
           THEN /\ Return(t, entry.value)
                /\ lookups' = LookupsAfterReturn(t)
                /\ aborted' = aborted
           ELSE /\ Raise(t, e)
                /\ lookups' = LookupsAfterRaise(t, e)
                /\ aborted' = AbortedAfterRaise(t, e)
    /\ UNCHANGED <<registry, cache, nops, calls, returns, bodyExc>>
    /\ UNCHANGED outsideStore

\* The loop that demands every other parameter by its name: a parameter
\* without an Inject default whose name is not registered ends the lookup
\* with the not-found KeyError.
_resolve_param_by_name(t) ==
    /\ At(t, "getitem", "resolve")
    /\ LET f == Top(t)
           params == f.resolver.params
       IN  /\ f.i <= Len(params)
           /\ LET default == params[f.i].default
                  e == Exc("KeyError", "lookup", params[f.i].name)
              IN  IF default /= Empty /\ isinstance_Inject(default)
                  THEN /\ stack' = [stack EXCEPT ![t] =
                               Append(SetTop(@, [f EXCEPT !.pc = "wait"]),
                                      Frame("getitem", get_inject_key(default), NoVal, NoResolver, FALSE))]
                       /\ ev' = NoEvent
                       /\ UNCHANGED <<lock, lookups, aborted>>
                  ELSE /\ Raise(t, e)
                       /\ lookups' = LookupsAfterRaise(t, e)
                       /\ aborted' = AbortedAfterRaise(t, e)
    /\ UNCHANGED <<registry, cache, nops, calls, returns, bodyExc>>
    /\ UNCHANGED outsideStore

\* One turn of the loop over the parameters: an Inject default is looked up
\* with self[key], any other parameter is left to the call.
_resolve_param(t) ==
    /\ At(t, "getitem", "resolve")
    /\ LET f == Top(t)
           params == f.resolver.params
       IN  /\ f.i <= Len(params)
           /\ LET default == params[f.i].default IN
              IF default /= Empty /\ isinstance_Inject(default)
              THEN stack' = [stack EXCEPT ![t] =
                        Append(SetTop(@, [f EXCEPT !.pc = "wait"]),
                               Frame("getitem", get_inject_key(default), NoVal, NoResolver, FALSE))]
              ELSE stack' = [stack EXCEPT ![t] =
                        SetTop(@, [f EXCEPT !.args = Append(@, NoVal), !.i = @ + 1])]
    /\ ev' = NoEvent
    /\ UNCHANGED <<registry, cache, lock, nops, calls, returns, lookups, aborted, bodyExc>>
    /\ UNCHANGED outsideStore

\* The call made without the arguments that were looked up.
Bind_defaults(params, args) == [i \in 1..Len(params) |-> params[i].default]

\* resolver(**resolver_args): a parameter that was not supplied takes its
\* default; one without a default makes the call a TypeError.
Bind(params, args) ==
    [i \in 1..Len(params) |-> IF args[i] /= NoVal THEN args[i] ELSE params[i].default]

\* The result is never stored / is stored whatever evaluate_once says.
_cache_result_never(c, key, evaluate_once, result) == c
_cache_result_always(c, key, evaluate_once, result) == [c EXCEPT ![key] = result]

\* if resolver_with_args.evaluate_once: self._cache[key] = result
_cache_result(c, key, evaluate_once, result) ==
    IF evaluate_once THEN [c EXCEPT ![key] = result] ELSE c

\* The cache entry written also when the call raises (with None for a result).
_resolve_call_caching_failure(t) ==
    /\ At(t, "getitem", "resolve")
    /\ LET f == Top(t)
           params == f.resolver.params
           bound == Bind(params, f.args)
           result == Obj(f.key, calls[f.key] + 1, bound)
           e == IF \E i \in 1..Len(params) : bound[i] = Empty
                THEN Exc("TypeError", "call", f.key)
                ELSE Exc(f.resolver.body, "body", f.key)
       IN  /\ f.i > Len(params)
           /\ calls' = [calls EXCEPT ![f.key] = @ + 1]
           /\ IF e.type = "return"
              THEN /\ returns' = [returns EXCEPT ![f.key] = @ + 1]
                   /\ cache' = _cache_result(cache, f.key, f.evaluate_once, result)
                   /\ Return(t, result)
                   /\ lookups' = LookupsAfterReturn(t)
                   /\ UNCHANGED <<aborted, bodyExc>>
              ELSE /\ Raise(t, e)
                   /\ lookups' = LookupsAfterRaise(t, e)
                   /\ aborted' = AbortedAfterRaise(t, e)
                   /\ bodyExc' = IF e.origin = "body" /\ bodyExc[t] = NoExc
                                 THEN [bodyExc EXCEPT ![t] = e] ELSE bodyExc
                   /\ cache' = _cache_result(cache, f.key, f.evaluate_once, None)
                   /\ UNCHANGED returns
    /\ UNCHANGED <<registry, nops>>
    /\ UNCHANGED outsideStore

\* return resolver(**resolver_args), then the caching and the return of __getitem__
_resolve_call(t) ==
    /\ At(t, "getitem", "resolve")
    /\ LET f == Top(t)
           params == f.resolver.params
           bound == Bind(params, f.args)
           result == Obj(f.key, calls[f.key] + 1, bound)
           e == IF \E i \in 1..Len(params) : bound[i] = Empty
                THEN Exc("TypeError", "call", f.key)
                ELSE Exc(f.resolver.body, "body", f.key)
       IN  /\ f.i > Len(params)
           /\ calls' = [calls EXCEPT ![f.key] = @ + 1]
           /\ IF e.type = "return"
              THEN /\ returns' = [returns EXCEPT ![f.key] = @ + 1]
                   /\ cache' = _cache_result(cache, f.key, f.evaluate_once, result)
                   /\ Return(t, result)
                   /\ lookups' = LookupsAfterReturn(t)
                   /\ UNCHANGED <<aborted, bodyExc>>
              ELSE /\ Raise(t, e)
                   /\ lookups' = LookupsAfterRaise(t, e)
                   /\ aborted' = AbortedAfterRaise(t, e)
                   /\ bodyExc' = IF e.origin = "body" /\ bodyExc[t] = NoExc
                                 THEN [bodyExc EXCEPT ![t] = e] ELSE bodyExc
                   /\ UNCHANGED <<cache, returns>>
    /\ UNCHANGED <<registry, nops>>
    /\ UNCHANGED outsideStore

__getitem__(t, K) ==
    \E k \in K : call(t, Frame("getitem", k, NoVal, NoResolver, FALSE))

(***************************************************************************)
(* _reset_for_testing(): both dicts are cleared under the lock.            *)
(***************************************************************************)
_reset_for_testing_clear(t) ==
    /\ At(t, "_reset_for_testing", "body")
    /\ registry' = [k \in Keys |-> Absent]
    /\ cache' = [k \in Keys |-> NoVal]
    /\ Return(t, None)
    /\ calls' = Zero
    /\ returns' = Zero
    /\ lookups' = Zero
    /\ aborted' = Zero
    /\ UNCHANGED <<nops, bodyExc>>
    /\ UNCHANGED outsideStore

_reset_for_testing(t) ==
    call(t, Frame("_reset_for_testing", "", NoVal, NoResolver, FALSE))

(***************************************************************************)
(* One caller: the operations run one after the other.                     *)
(***************************************************************************)
Caller == "t1"

Next ==
    \/ register_value(Caller, Keys, Values)
    \/ register_resolver(Caller, Keys, Registrations)
    \/ __getitem__(Caller, Keys)
    \/ _reset_for_testing(Caller)
    \/ acquire(Caller)
    \/ register_value_check(Caller)
    \/ register_value_write(Caller)
    \/ register_resolver_check(Caller)
    \/ register_resolver_write(Caller)
    \/ __getitem___check(Caller)
    \/ _resolve_param(Caller)
    \/ _resolve_call(Caller)
    \/ _reset_for_testing_clear(Caller)

Spec == Init /\ [][Next]_vars


(***************************************************************************)
(* Two threads share the store.  The same operations, on fewer inputs.     *)
(***************************************************************************)
SharedKeys == {"a", "b"}
SharedValues == {"v1"}
SharedRegistrations ==
    ({Plain("return"), WithInject("b")} \X BOOLEAN) \cup {<<Plain("ValueError"), TRUE>>}

NextMT ==
    \E t \in Threads :
        \/ register_value(t, SharedKeys, SharedValues)
        \/ register_resolver(t, SharedKeys, SharedRegistrations)
        \/ __getitem__(t, SharedKeys)
        \/ _reset_for_testing(t)
        \/ acquire(t)
        \/ register_value_check(t)
        \/ register_value_write(t)
        \/ register_resolver_check(t)
        \/ register_resolver_write(t)
        \/ __getitem___check(t)
        \/ _resolve_param(t)
        \/ _resolve_call(t)
        \/ _reset_for_testing_clear(t)

SpecMT == Init /\ [][NextMT]_vars


(***************************************************************************)
(* InjectipyStore(): __new__ returns the one instance, making it under the  *)
(* class lock when there is none; __init__ fills in the registry, the cache *)
(* and the registry lock of an object that is not initialized yet.  Once    *)
(* the instance exists and is initialized, a call reads _instance and       *)
(* _initialized only.                                                       *)
(***************************************************************************)
\* Every call initializes the object it returns.
_needs_init_always(initialized) == TRUE
\* if not getattr(self, "_initialized", False):
_needs_init(initialized) == ~initialized

InjectipyStore(t) ==
    /\ stack[t] = <<>>
    /\ ncons < MaxConstructions
    /\ ncons' = ncons + 1
    /\ LET make == cls_instance = NoInstance
           obj == IF make THEN created + 1 ELSE cls_instance
           init == _needs_init(IF make THEN FALSE ELSE cls_initialized)
       IN  /\ cls_instance' = obj
           /\ created' = IF make THEN created + 1 ELSE created
           /\ cls_initialized' = (init \/ cls_initialized)
           /\ handle' = [handle EXCEPT ![t] = obj]
           /\ seen' = [seen EXCEPT ![t] = {k \in Keys : registry[k].kind /= "absent"}]
           /\ IF init
              THEN /\ registry' = [k \in Keys |-> Absent]
                   /\ cache' = [k \in Keys |-> NoVal]
                   /\ lock' = [owner |-> NoThread, count |-> 0]
              ELSE UNCHANGED <<registry, cache, lock>>
    /\ ev' = NoEvent
    /\ UNCHANGED <<stack, nops, calls, returns, lookups, aborted, bodyExc>>
    /\ UNCHANGED <<scopeVars, wrapperVars>>

(***************************************************************************)
(* Two threads each construct a store of their own and register and look up *)
(* the same key in it, each with a value of its own.                        *)
(***************************************************************************)
OwnKeys == {"a"}
Own(t) == IF t = "t1" THEN "v1" ELSE "v2"

NextNew ==
    \E t \in Threads :
        \/ InjectipyStore(t)
        \/ handle[t] /= NoInstance /\ register_value(t, OwnKeys, {Own(t)})
        \/ handle[t] /= NoInstance /\ __getitem__(t, OwnKeys)
        \/ acquire(t)
        \/ register_value_check(t)
        \/ register_value_write(t)
        \/ __getitem___check(t)

SpecNew == Init /\ [][NextNew]_vars


(***************************************************************************)
(* @inject (inject.py).  inject(fn) keeps fn, its __defaults__ and its      *)
(* __kwdefaults__ in the closure of the wrapper it returns.  A call of the  *)
(* wrapper looks up every Inject default in injectipy_store, writes the     *)
(* resolved defaults into the function, calls it and puts the original      *)
(* defaults back in a finally clause.                                       *)
(***************************************************************************)
\* The argument a caller passes explicitly.
Explicit == Val("explicit")

\* def f(x=Inject["a"]) / def f(*, y=Inject["b"]) / def f(x=Inject["a"], *, y=Inject["b"])
\* def f(x=Inject["a"], /) / def f(x=Inject["a"]): raise ValueError
Funcs ==
    { Resolver(<<Param("x", "POSITIONAL_OR_KEYWORD", Inject("a"))>>, "return"),
      Resolver(<<Param("y", "KEYWORD_ONLY", Inject("b"))>>, "return"),
      Resolver(<<Param("x", "POSITIONAL_OR_KEYWORD", Inject("a")),
                 Param("y", "KEYWORD_ONLY", Inject("b"))>>, "return"),
      Resolver(<<Param("x", "POSITIONAL_ONLY", Inject("a"))>>, "return"),
      Resolver(<<Param("x", "POSITIONAL_OR_KEYWORD", Inject("a"))>>, "ValueError") }

IsKeywordOnly(p) == p.kind = "KEYWORD_ONLY"
IsPositional(p) == p.kind /= "KEYWORD_ONLY"
Defaults(params) == [i \in 1..Len(params) |-> params[i].default]

\* fn.__defaults__ and fn.__kwdefaults__ as they were when fn was decorated
original_defaults == Defaults(SelectSeq(original_func.params, IsPositional))
original_kwdefaults == Defaults(SelectSeq(original_func.params, IsKeywordOnly))

ParamNames(f) == {f.params[i].name : i \in 1..Len(f.params)}
InjectNames(f) ==
    {f.params[i].name : i \in {j \in 1..Len(f.params) : isinstance_Inject(f.params[j].default)}}

\* inject(fn): a function with an Inject default is wrapped.
inject(f) ==
    /\ original_func = NoFunc
    /\ InjectNames(f) /= {}
    /\ original_func' = f
    /\ __defaults__' = Defaults(SelectSeq(f.params, IsPositional))
    /\ __kwdefaults__' = Defaults(SelectSeq(f.params, IsKeywordOnly))
    /\ ev' = NoEvent
    /\ UNCHANGED <<registry, cache, lock, stack, nops, calls, returns, lookups, aborted, bodyExc>>
    /\ UNCHANGED <<wrapper, ncalls, wev>>
    /\ UNCHANGED <<scopeVars, classVars>>

\* wrapper(*args, **kwargs): the call passes the parameters in E explicitly.
wrapper_call(t, E) ==
    /\ original_func /= NoFunc
    /\ wrapper[t].pc = "idle"
    /\ stack[t] = <<>>
    /\ ncalls < MaxCalls
    /\ ncalls' = ncalls + 1
    /\ wrapper' = [wrapper EXCEPT ![t] = [NoCall EXCEPT !.pc = "defaults", !.explicit = E]]
    /\ wev' = NoWrapperEvent
    /\ ev' = NoEvent
    /\ UNCHANGED <<registry, cache, lock, stack, nops, calls, returns, lookups, aborted, bodyExc>>
    /\ UNCHANGED <<original_func, __defaults__, __kwdefaults__>>
    /\ UNCHANGED <<scopeVars, classVars>>

\* One turn of a loop over the defaults: an Inject default starts
\* injectipy_store[inject_key], any other default is kept; after the last
\* one the new defaults are written into the function.
wrapper_loop(t, pc, defaults, next) ==
    /\ wrapper[t].pc = pc
    /\ LET w == wrapper[t] IN
       IF w.i > Len(defaults)
       THEN /\ wrapper' = [wrapper EXCEPT ![t] = [w EXCEPT !.pc = next, !.i = 1, !.new = <<>>]]
            /\ IF pc = "defaults"
               THEN /\ __defaults__' = IF defaults /= <<>> THEN w.new ELSE __defaults__
                    /\ UNCHANGED __kwdefaults__
               ELSE /\ __kwdefaults__' = IF defaults /= <<>> THEN w.new ELSE __kwdefaults__
                    /\ UNCHANGED __defaults__
            /\ UNCHANGED stack
       ELSE /\ IF isinstance_Inject(defaults[w.i])
               THEN /\ wrapper' = [wrapper EXCEPT ![t] = [w EXCEPT !.pc = pc \o "_value"]]
                    /\ stack' = [stack EXCEPT ![t] =
                            <<Frame("getitem", get_inject_key(defaults[w.i]), NoVal, NoResolver, FALSE)>>]
               ELSE /\ wrapper' = [wrapper EXCEPT ![t] =
                            [w EXCEPT !.new = Append(@, defaults[w.i]), !.i = @ + 1]]
                    /\ UNCHANGED stack
            /\ UNCHANGED <<__defaults__, __kwdefaults__>>
    /\ ev' = NoEvent
    /\ UNCHANGED <<registry, cache, lock, nops, calls, returns, lookups, aborted, bodyExc>>
    /\ UNCHANGED <<original_func, ncalls, wev>>
    /\ UNCHANGED <<scopeVars, classVars>>

wrapper_defaults(t) == wrapper_loop(t, "defaults", original_defaults, "kwdefaults")
wrapper_kwdefaults(t) == wrapper_loop(t, "kwdefaults", original_kwdefaults, "call")

\* A handler that catches nothing.
wrapper_except_nothing(e) == FALSE
\* except KeyError as e: raise RuntimeError(...) from e
wrapper_except(e) == e.type = "KeyError"

\* value = injectipy_store[inject_key] has ended: its value joins the new
\* defaults; a KeyError becomes a RuntimeError naming the key, any other
\* exception leaves the wrapper as it is.  Neither passes a finally clause.
wrapper_value(t, pc, defaults) ==
    /\ wrapper[t].pc = pc \o "_value"
    /\ stack[t] = <<>>
    /\ ev.t = t
    /\ LET w == wrapper[t]
           inject_key == get_inject_key(defaults[w.i])
       IN  IF ev.kind = "return"
           THEN /\ wrapper' = [wrapper EXCEPT ![t] =
                        [w EXCEPT !.pc = pc, !.new = Append(@, ev.val), !.i = @ + 1]]
                /\ UNCHANGED wev
           ELSE /\ wrapper' = [wrapper EXCEPT ![t] = NoCall]
                /\ wev' = IF wrapper_except(ev.exc)
                          THEN [kind |-> "raise", val |-> NoVal,
                                exc |-> Exc("RuntimeError", "inject", inject_key),
                                t |-> t, explicit |-> w.explicit, ran |-> FALSE,
                                cause |-> ev.exc]
                          ELSE [kind |-> "raise", val |-> NoVal, exc |-> ev.exc, t |-> t,
                                explicit |-> w.explicit, ran |-> FALSE, cause |-> NoExc]
    /\ ev' = NoEvent
    /\ UNCHANGED <<registry, cache, lock, stack, nops, calls, returns, lookups, aborted, bodyExc>>
    /\ UNCHANGED <<original_func, __defaults__, __kwdefaults__, ncalls>>
    /\ UNCHANGED <<scopeVars, classVars>>

wrapper_defaults_value(t) == wrapper_value(t, "defaults", original_defaults)
wrapper_kwdefaults_value(t) == wrapper_value(t, "kwdefaults", original_kwdefaults)

\* What the body receives: an explicit argument, or else the default the
\* function has at the time of the call.
BindCall(f, E, defaults, kwdefaults) ==
    LET current == defaults \o kwdefaults IN
    [i \in 1..Len(f.params) |-> IF f.params[i].name \in E THEN Explicit ELSE current[i]]

\* return_value = original_func(*args, **kwargs)
wrapper_original_func(t) ==
    /\ wrapper[t].pc = "call"
    /\ LET w == wrapper[t]
           bound == BindCall(original_func, w.explicit, __defaults__, __kwdefaults__)
       IN  wrapper' = [wrapper EXCEPT ![t] =
               IF original_func.body = "return"
               THEN [w EXCEPT !.pc = "finally", !.ran = TRUE, !.new = bound,
                              !.val = Obj("original_func", 0, bound)]
               ELSE [w EXCEPT !.pc = "finally", !.ran = TRUE, !.new = bound,
                              !.exc = Exc(original_func.body, "body", "original_func")]]
    /\ ev' = NoEvent
    /\ UNCHANGED <<registry, cache, lock, stack, nops, calls, returns, lookups, aborted, bodyExc>>
    /\ UNCHANGED <<original_func, __defaults__, __kwdefaults__, ncalls, wev>>
    /\ UNCHANGED <<scopeVars, classVars>>

\* finally: the original defaults are put back, then the call returns or raises.
wrapper_finally(t) ==
    /\ wrapper[t].pc = "finally"
    /\ __defaults__' = original_defaults
    /\ __kwdefaults__' = original_kwdefaults
    /\ LET w == wrapper[t] IN
       wev' = [kind |-> IF w.exc = NoExc THEN "return" ELSE "raise",
               val |-> w.val, exc |-> w.exc,
               t |-> t, explicit |-> w.explicit, ran |-> w.ran, cause |-> NoExc]
    /\ wrapper' = [wrapper EXCEPT ![t] = NoCall]
    /\ ev' = NoEvent
    /\ UNCHANGED <<registry, cache, lock, stack, nops, calls, returns, lookups, aborted, bodyExc>>
    /\ UNCHANGED <<original_func, ncalls>>
    /\ UNCHANGED <<scopeVars, classVars>>

\* What is registered before and between the calls of the decorated function.
InjectKeys == {"a", "b"}
InjectValues == {"v1"}
InjectRegistrations ==
    {<<Plain("return"), FALSE>>, <<Plain("ValueError"), FALSE>>, <<WithInject("b"), FALSE>>}
Idle(t) == wrapper[t].pc = "idle"

NextInject ==
    \/ \E f \in Funcs : inject(f)
    \/ \E E \in SUBSET ParamNames(original_func) : wrapper_call(Caller, E)
    \/ wrapper_defaults(Caller)
    \/ wrapper_defaults_value(Caller)
    \/ wrapper_kwdefaults(Caller)
    \/ wrapper_kwdefaults_value(Caller)
    \/ wrapper_original_func(Caller)
    \/ wrapper_finally(Caller)
    \/ Idle(Caller) /\ register_value(Caller, InjectKeys, InjectValues)
    \/ Idle(Caller) /\ register_resolver(Caller, InjectKeys, InjectRegistrations)
    \/ acquire(Caller)
    \/ register_value_check(Caller)
    \/ register_value_write(Caller)
    \/ register_resolver_check(Caller)
    \/ register_resolver_write(Caller)
    \/ __getitem___check(Caller)
    \/ _resolve_param(Caller)
    \/ _resolve_call(Caller)

SpecInject == Init /\ [][NextInject]_vars


(***************************************************************************)
(* DependencyScope: registration.  The same duplicate and circular checks   *)
(* as the store's, made on the registry of the one scope, with the scope    *)
(* errors.                                                                  *)
(***************************************************************************)
_AsyncResolverWithArgs(resolver, evaluate_once) ==
    [kind |-> "async_resolver", value |-> NoVal, resolver |-> resolver,
     evaluate_once |-> evaluate_once]

\* What calling an async resolver hands out before it is awaited.
Awaitable(k) == [tag |-> "awaitable", key |-> k, n |-> 0, args |-> <<>>]

Last(s) == s[Len(s)]

ScopeEvent(c, fn, scope, key, chain, kind, val, exc) ==
    [key |-> key, kind |-> kind, c |-> c, fn |-> fn, scope |-> scope, given |-> <<>>,
     chain |-> chain, val |-> val, exc |-> exc]

\* A context that runs starts a scope operation.
ScopeOp(c) == started[c] /= "no" /\ sops < MaxScopeOps /\ sops' = sops + 1

scope_register_checks(reg, key, resolver) ==
    IF _raise_if_key_already_registered(reg, key)
    THEN Exc("DuplicateRegistrationError", "duplicate", key)
    ELSE IF _check_circular_dependencies(reg, key, resolver)
    THEN Exc("CircularDependencyError", "circular", key)
    ELSE NoExc

\* The part of a registration that is the same for the three entry kinds.
scope_register(c, fn, s, k, entry, cached) ==
    LET e == scope_register_checks(scope_registry[s], k, entry.resolver) IN
    /\ ScopeOp(c)
    /\ IF e /= NoExc
       THEN /\ sev' = ScopeEvent(c, fn, s, k, <<s>>, "raise", NoVal, e)
            /\ UNCHANGED <<scope_registry, scope_cache>>
       ELSE /\ scope_registry' = [scope_registry EXCEPT ![s][k] = entry]
            /\ scope_cache' = [scope_cache EXCEPT ![s][k] = cached]
            /\ sev' = ScopeEvent(c, fn, s, k, <<s>>, "return", None, NoExc)
    /\ UNCHANGED <<is_active, scope_stack, with_blocks, inherited, cleared, started>>
    /\ UNCHANGED <<outsideScopes, scopeLocks>>

scope_register_value(c, S, K, V) ==
    \E s \in S, k \in K, v \in V :
        scope_register(c, "register_value", s, k, ValueEntry(Val(v)), Val(v))

scope_register_resolver(c, S, K, R) ==
    \E s \in S, k \in K, r \in R :
        scope_register(c, "register_resolver", s, k, _StoreResolverWithArgs(r[1], r[2]), NoVal)

scope_register_async_resolver(c, S, K, R) ==
    \E s \in S, k \in K, r \in R :
        scope_register(c, "register_async_resolver", s, k,
                       _AsyncResolverWithArgs(r[1], r[2]), NoVal)

(***************************************************************************)
(* Resolution of a key against a chain of scopes: the scopes are searched   *)
(* from the last one (the innermost) to the first; in the first scope that  *)
(* has the key, a cached value or a static value is returned, a resolver is *)
(* called with its Inject parameters resolved against the same chain.       *)
(* mode is "sync" for a plain lookup, "inject" for the synchronous          *)
(* decorator and "async" for the asynchronous one.                          *)
(***************************************************************************)
scope_contains(cch, s, key) ==
    cch[s][key] /= NoVal \/ scope_registry[s][key].kind /= "absent"

\* The scopes are searched from the first one to the last.
find_scope_outermost_first(cch, chain, key) ==
    LET found == {i \in 1..Len(chain) : scope_contains(cch, chain[i], key)} IN
    IF found = {} THEN 0 ELSE CHOOSE i \in found : \A j \in found : j >= i

\* The place in the chain of the scope that answers for key, 0 if none does.
find_scope(cch, chain, key) ==
    LET found == {i \in 1..Len(chain) : scope_contains(cch, chain[i], key)} IN
    IF found = {} THEN 0 ELSE CHOOSE i \in found : \A j \in found : j <= i

Returned(cch, v) == [args |-> <<>>, kind |-> "return", cache |-> cch, val |-> v, exc |-> NoExc]
Raised(cch, e) == [args |-> <<>>, kind |-> "raise", cache |-> cch, val |-> NoVal, exc |-> e]

\* The chain a dependency of a resolver found in scope s is resolved against:
\* here only the scope that registers the resolver.
dependency_chain_defining_scope(chain, s) == <<s>>
\* ... and in the engine: the chain of the lookup itself.
dependency_chain(chain, s) == chain

\* No way of resolving refuses an async resolver.
refuses_async_resolver_never(mode) == FALSE
\* The synchronous decorator refuses a key registered with
\* register_async_resolver; a direct lookup and the asynchronous decorator do not.
refuses_async_resolver(mode) == mode = "inject"

RECURSIVE scope_resolve(_, _, _, _, _)
RECURSIVE scope_resolve_args(_, _, _, _, _, _, _)

scope_resolve(cch, chain, key, mode, depth) ==
    LET i == find_scope(cch, chain, key) IN
    IF depth > MaxDepth THEN Raised(cch, Exc("RecursionError", "lookup", key))
    ELSE IF i = 0 THEN Raised(cch, Exc("DependencyNotFoundError", "lookup", key))
    ELSE LET s == chain[i]
             entry == scope_registry[s][key]
         IN  IF cch[s][key] /= NoVal THEN Returned(cch, cch[s][key])
             ELSE IF entry.kind = "value" THEN Returned(cch, entry.value)
             ELSE IF entry.kind = "async_resolver" /\ refuses_async_resolver(mode)
             THEN Raised(cch, Exc("AsyncDependencyError", "lookup", key))
             ELSE LET a == scope_resolve_args(cch, dependency_chain(chain, s),
                                              entry.resolver.params, 1, <<>>, mode, depth)
                      bound == Bind(entry.resolver.params, a.args)
                      result == Obj(key, 0, bound)
                  IN  IF a.kind = "raise" THEN a
                      ELSE IF \E j \in 1..Len(bound) : bound[j] = Empty
                      THEN Raised(a.cache, Exc("TypeError", "call", key))
                      ELSE IF entry.resolver.body /= "return"
                      THEN Raised(a.cache, Exc(entry.resolver.body, "body", key))
                      ELSE IF entry.kind = "async_resolver" /\ mode = "sync"
                      THEN Returned(a.cache, Awaitable(key))
                      ELSE Returned(IF entry.evaluate_once
                                    THEN [a.cache EXCEPT ![s][key] = result]
                                    ELSE a.cache,
                                    result)

\* The parameters from the i-th on: an Inject default is resolved, and left to
\* the call when its key is found nowhere; any other parameter is left to
\* the call.
scope_resolve_args(cch, chain, params, i, args, mode, depth) ==
    IF i > Len(params)
    THEN [args |-> args, kind |-> "return", cache |-> cch, val |-> NoVal, exc |-> NoExc]
    ELSE LET default == params[i].default IN
         IF default /= Empty /\ isinstance_Inject(default)
         THEN LET r == scope_resolve(cch, chain, get_inject_key(default), mode, depth + 1) IN
              IF r.kind = "return"
              THEN scope_resolve_args(r.cache, chain, params, i + 1, Append(args, r.val),
                                      mode, depth)
              ELSE IF r.exc.type = "DependencyNotFoundError"
              THEN scope_resolve_args(r.cache, chain, params, i + 1, Append(args, NoVal),
                                      mode, depth)
              ELSE r
         ELSE scope_resolve_args(cch, chain, params, i + 1, Append(args, NoVal), mode, depth)

\* A lookup by context c: the result goes to the caller, the cache entries
\* written on the way stay.  given is the scopes=[...] of the decorator.
scope_lookup(c, fn, s, key, given, chain, mode) ==
    LET r == scope_resolve(scope_cache, chain, key, mode, 1) IN
    /\ ScopeOp(c)
    /\ scope_cache' = r.cache
    /\ sev' = [ScopeEvent(c, fn, s, key, chain, r.kind, r.val, r.exc) EXCEPT !.given = given]
    /\ UNCHANGED <<scope_registry, is_active, scope_stack, with_blocks, inherited,
                   cleared, started>>
    /\ UNCHANGED <<outsideScopes, scopeLocks>>

\* get_active_scopes()
get_active_scopes(c) == scope_stack[c]

\* The explicit scopes are added to the active ones.
search_chain_merged(c, scopes) == get_active_scopes(c) \o scopes
\* scopes=[...] of the decorator, or the active scopes when none are given.
search_chain(c, scopes) == IF scopes = <<>> THEN get_active_scopes(c) ELSE scopes

\* scope[key]
scope_getitem(c, S, K) ==
    \E s \in S, k \in K : scope_lookup(c, "getitem", s, k, <<>>, <<s>>, "sync")

\* resolve_dependency(key)
resolve_dependency(c, K) ==
    \E k \in K : scope_lookup(c, "resolve_dependency", "", k, <<>>, get_active_scopes(c), "sync")

\* A call of a function decorated with @inject, or @inject(scopes=[...]),
\* whose parameter has the default Inject[k].
inject_call(c, K, SS) ==
    \E k \in K, scopes \in SS :
        scope_lookup(c, "inject", "", k, scopes, search_chain(c, scopes), "inject")

\* The same for @ainject: what it resolves is awaited.
ainject_call(c, K, SS) ==
    \E k \in K, scopes \in SS :
        scope_lookup(c, "ainject", "", k, scopes, search_chain(c, scopes), "async")

(***************************************************************************)
(* The scope stack: with scope: ... , clear_scope_stack(), and the start of *)
(* a thread or of a task.                                                   *)
(***************************************************************************)
\* __enter__: the stack of the context becomes a new list with the scope added.
scope_enter_prepend(st, s) == <<s>> \o st
scope_enter_push(st, s) == Append(st, s)

scope_enter(c, S) ==
    \E s \in S :
        /\ ScopeOp(c)
        /\ scope_stack' = [scope_stack EXCEPT ![c] = scope_enter_push(@, s)]
        /\ with_blocks' = [with_blocks EXCEPT ![c] = Append(@, s)]
        /\ is_active' = [is_active EXCEPT ![s] = TRUE]
        /\ sev' = ScopeEvent(c, "enter", s, "", <<>>, "return", None, NoExc)
        /\ UNCHANGED <<scope_registry, scope_cache, inherited, cleared, started>>
        /\ UNCHANGED <<outsideScopes, scopeLocks>>

\* An exit that raises when the scope is not the top of the stack.
scope_exit_error_strict(st, s) ==
    IF st /= <<>> /\ Last(st) = s THEN NoExc ELSE Exc("RuntimeError", "exit", "")
\* __exit__ raises nothing of its own.
scope_exit_error(st, s) == NoExc

\* __exit__ takes the scope off the stack when it is the top of it.
scope_exit_pop(st, s) == IF st /= <<>> /\ Last(st) = s THEN Front(st) ELSE st

\* An exit that leaves the registrations in place.
scope_exit_keep(reg, s, empty) == reg
\* __exit__ empties the registry (and the cache) of the scope.
scope_exit_clear(reg, s, empty) == [reg EXCEPT ![s] = [k \in Keys |-> empty]]

\* The with-block opened last in context c ends, by running to its end
\* (how = "return") or by an exception raised in it; __exit__ does not
\* suppress the exception.
scope_exit(c, How) ==
    \E how \in How :
        /\ with_blocks[c] /= <<>>
        /\ ScopeOp(c)
        /\ LET s == Last(with_blocks[c])
               own == scope_exit_error(scope_stack[c], s)
               e == IF own /= NoExc THEN own
                    ELSE IF how = "return" THEN NoExc ELSE Exc(how, "with-body", "")
           IN  /\ scope_stack' = [scope_stack EXCEPT ![c] = scope_exit_pop(@, s)]
               /\ with_blocks' = [with_blocks EXCEPT ![c] = Front(@)]
               /\ cleared' = [cleared EXCEPT ![c] =
                                 IF @ > Len(with_blocks[c]) - 1
                                 THEN Len(with_blocks[c]) - 1 ELSE @]
               /\ is_active' = [is_active EXCEPT ![s] = FALSE]
               /\ scope_registry' = scope_exit_clear(scope_registry, s, Absent)
               /\ scope_cache' = scope_exit_clear(scope_cache, s, NoVal)
               /\ sev' = ScopeEvent(c, "exit", s, "", <<>>,
                                    IF e = NoExc THEN "return" ELSE "raise", 
                                    IF e = NoExc THEN None ELSE NoVal, e)
        /\ UNCHANGED <<inherited, started>>
        /\ UNCHANGED <<outsideScopes, scopeLocks>>

\* clear_scope_stack(): the stack of the calling context becomes empty.
clear_scope_stack(c) ==
    /\ ScopeOp(c)
    /\ scope_stack' = [scope_stack EXCEPT ![c] = <<>>]
    /\ inherited' = [inherited EXCEPT ![c] = <<>>]
    /\ cleared' = [cleared EXCEPT ![c] = Len(with_blocks[c])]
    /\ sev' = ScopeEvent(c, "clear_scope_stack", "", "", <<>>, "return", None, NoExc)
    /\ UNCHANGED <<scope_registry, scope_cache, is_active, with_blocks, started>>
    /\ UNCHANGED <<outsideScopes, scopeLocks>>

\* A thread that starts with the stack of the thread that starts it.
thread_stack_of_starter(p) == scope_stack[p]
\* threading.Thread(...).start(): the new thread starts with an empty stack.
thread_stack(p) == <<>>
\* A task that starts with an empty stack.
task_stack_empty(p) == <<>>
\* asyncio.create_task(...): the task runs in a copy of the current context.
task_stack(p) == scope_stack[p]

Thread_start(p, c) ==
    /\ started[p] /= "no"
    /\ started[c] = "no"
    /\ ScopeOp(p)
    /\ started' = [started EXCEPT ![c] = "thread"]
    /\ scope_stack' = [scope_stack EXCEPT ![c] = thread_stack(p)]
    /\ inherited' = [inherited EXCEPT ![c] = thread_stack(p)]
    /\ sev' = ScopeEvent(p, "Thread.start", "", "", <<>>, "return", None, NoExc)
    /\ UNCHANGED <<scope_registry, scope_cache, is_active, with_blocks, cleared>>
    /\ UNCHANGED <<outsideScopes, scopeLocks>>

create_task(p, c) ==
    /\ started[p] /= "no"
    /\ started[c] = "no"
    /\ ScopeOp(p)
    /\ started' = [started EXCEPT ![c] = "task"]
    /\ scope_stack' = [scope_stack EXCEPT ![c] = task_stack(p)]
    /\ inherited' = [inherited EXCEPT ![c] = task_stack(p)]
    /\ sev' = ScopeEvent(p, "create_task", "", "", <<>>, "return", None, NoExc)
    /\ UNCHANGED <<scope_registry, scope_cache, is_active, with_blocks, cleared>>
    /\ UNCHANGED <<outsideScopes, scopeLocks>>

(***************************************************************************)
(* One context works with two scopes: registrations, with-blocks and the    *)
(* lookups.                                                                 *)
(***************************************************************************)
ScopeKeys == {"a", "b"}
ScopeRegistrations == {<<WithInject("b"), FALSE>>, <<Plain("return"), TRUE>>}
\* scopes=[...] as given to the decorator; <<>> when it is not given.
ExplicitScopes == {<<>>, <<"s2">>, <<"s1", "s2">>}
\* How a with-body ends.
BodyEnds == {"return", "ValueError"}

NextScope ==
    \/ scope_register_value(Caller, {"s1"}, ScopeKeys, {"v1"})
    \/ scope_register_value(Caller, {"s2"}, ScopeKeys, {"v2"})
    \/ scope_register_resolver(Caller, Scopes, {"a"}, ScopeRegistrations)
    \/ scope_enter(Caller, Scopes)
    \/ scope_exit(Caller, BodyEnds)
    \/ clear_scope_stack(Caller)
    \/ scope_getitem(Caller, Scopes, ScopeKeys)
    \/ inject_call(Caller, ScopeKeys, ExplicitScopes)

SpecScope == Init /\ [][NextScope]_vars

(***************************************************************************)
(* Two contexts: the main thread starts the other one as a thread or as a   *)
(* task; both register values, enter and exit scopes and resolve keys.      *)
(***************************************************************************)
CtxKeys == {"a"}

NextCtx ==
    \/ \E p \in Threads, c \in Threads : Thread_start(p, c)
    \/ \E p \in Threads, c \in Threads : create_task(p, c)
    \/ \E c \in Threads :
        \/ scope_register_value(c, Scopes, CtxKeys, Values)
        \/ scope_enter(c, Scopes)
        \/ scope_exit(c, BodyEnds)
        \/ clear_scope_stack(c)
        \/ resolve_dependency(c, CtxKeys)

SpecCtx == Init /\ [][NextCtx]_vars

(***************************************************************************)
(* Resolvers registered with register_async_resolver, reached by the        *)
(* synchronous decorator, by the asynchronous one and by scope[key].        *)
(***************************************************************************)
AsyncRegistrations == {<<Plain("return"), FALSE>>}

NextAsync ==
    \/ scope_register_value(Caller, {"s1"}, {"b"}, {"v1"})
    \/ scope_register_resolver(Caller, {"s1"}, {"a"}, AsyncRegistrations)
    \/ scope_register_async_resolver(Caller, Scopes, {"a"}, AsyncRegistrations)
    \/ scope_enter(Caller, Scopes)
    \/ scope_exit(Caller, BodyEnds)
    \/ scope_getitem(Caller, Scopes, ScopeKeys)
    \/ inject_call(Caller, ScopeKeys, ExplicitScopes)
    \/ ainject_call(Caller, ScopeKeys, ExplicitScopes)

SpecAsync == Init /\ [][NextAsync]_vars


(***************************************************************************)
(* A lookup by a thread, lock by lock.  Every scope has its own reentrant   *)
(* lock.  The lookup of a key takes the lock of the scope that answers for  *)
(* the key and holds it while the resolver's dependencies are looked up in  *)
(* the chain, each under the lock of the scope that answers for it, and     *)
(* while the resolver runs; the lock is released when the lookup returns or *)
(* raises.                                                                  *)
(***************************************************************************)
ScopeFrame(s, key) == [key |-> key, args |-> <<>>, scope |-> s, pc |-> "lock", i |-> 1]
Resolving(t) == Last(resolving[t])
ResolvingAt(t, pc) == resolving[t] /= <<>> /\ Resolving(t).pc = pc
\* The entry the lookup in progress of t has found.
Found(t) == scope_registry[Resolving(t).scope][Resolving(t).key]
IsCachedOrValue(t) ==
    \/ scope_cache[Resolving(t).scope][Resolving(t).key] /= NoVal
    \/ Found(t).kind = "value"
\* How many locks of scope s the lookups in progress of t hold.
Holds(t, s) ==
    Cardinality({i \in 1..Len(resolving[t]) :
                    resolving[t][i].scope = s /\ resolving[t][i].pc /= "lock"})

\* The lookup on top returns v: to the lookup below it, or to the caller.
scope_return(t, v) ==
    LET f == Resolving(t)
        rest == Front(resolving[t])
    IN  /\ scope_lock' = [scope_lock EXCEPT ![f.scope] = RLock_release(@, 1)]
        /\ resolving' = [resolving EXCEPT ![t] =
                IF rest = <<>> THEN <<>>
                ELSE SetTop(rest, [Last(rest) EXCEPT !.args = Append(@, v), !.i = @ + 1])]
        /\ sev' = IF rest = <<>>
                  THEN ScopeEvent(t, "inject", f.scope, f.key, resolving_chain[t],
                                  "return", v, NoExc)
                  ELSE NoScopeEvent

\* The lookup on top raises e: every lookup in progress of t ends, each
\* leaving its with-block.
scope_raise(t, e) ==
    /\ scope_lock' = [s \in Scopes |-> RLock_release(scope_lock[s], Holds(t, s))]
    /\ resolving' = [resolving EXCEPT ![t] = <<>>]
    /\ sev' = ScopeEvent(t, "inject", resolving[t][1].scope, resolving[t][1].key,
                         resolving_chain[t], "raise", NoVal, e)

\* A thread calls a function decorated with @inject(scopes=[...]).
scope_lookup_start(t, K, SS) ==
    \E k \in K, scopes \in SS :
        LET chain == search_chain(t, scopes)
            i == find_scope(scope_cache, chain, k)
        IN  /\ resolving[t] = <<>>
            /\ ScopeOp(t)
            /\ IF i = 0
               THEN /\ sev' = ScopeEvent(t, "inject", "", k, chain, "raise", NoVal,
                                         Exc("DependencyNotFoundError", "lookup", k))
                    /\ UNCHANGED <<resolving, resolving_chain>>
               ELSE /\ resolving' = [resolving EXCEPT ![t] = <<ScopeFrame(chain[i], k)>>]
                    /\ resolving_chain' = [resolving_chain EXCEPT ![t] = chain]
                    /\ sev' = NoScopeEvent
            /\ UNCHANGED <<scope_registry, scope_cache, scope_lock, is_active, scope_stack,
                           with_blocks, inherited, cleared, started>>
            /\ UNCHANGED outsideScopes

\* with self._lock:
scope_lock_acquire(t) ==
    /\ ResolvingAt(t, "lock")
    /\ RLock_acquire(scope_lock[Resolving(t).scope], t)
    /\ scope_lock' = [scope_lock EXCEPT ![Resolving(t).scope] = RLock_acquired(@, t)]
    /\ resolving' = [resolving EXCEPT ![t] = SetTop(@, [Resolving(t) EXCEPT !.pc = "body"])]
    /\ sev' = NoScopeEvent
    /\ UNCHANGED <<scope_registry, scope_cache, resolving_chain, is_active, scope_stack,
                   with_blocks, inherited, cleared, started, sops>>
    /\ UNCHANGED outsideScopes

\* The key is cached, or registered as a value.
scope_lookup_found(t) ==
    /\ ResolvingAt(t, "body")
    /\ IsCachedOrValue(t)
    /\ LET f == Resolving(t) IN
       IF scope_cache[f.scope][f.key] /= NoVal THEN scope_return(t, scope_cache[f.scope][f.key])
       ELSE scope_return(t, Found(t).value)
    /\ UNCHANGED <<scope_registry, scope_cache, resolving_chain, is_active, scope_stack,
                   with_blocks, inherited, cleared, started, sops>>
    /\ UNCHANGED outsideScopes

\* The next parameter of the resolver: its Inject default is looked up in the
\* chain, and left to the call when no scope of the chain holds the key.
scope_lookup_param(t) ==
    /\ ResolvingAt(t, "body")
    /\ ~IsCachedOrValue(t)
    /\ Found(t).kind = "resolver"
    /\ Resolving(t).i <= Len(Found(t).resolver.params)
    /\ LET f == Resolving(t)
           default == Found(t).resolver.params[f.i].default
           key == get_inject_key(default)
           j == find_scope(scope_cache, resolving_chain[t], key)
           skip == SetTop(resolving[t], [f EXCEPT !.args = Append(@, NoVal), !.i = @ + 1])
       IN  IF default = Empty \/ ~isinstance_Inject(default)
           THEN /\ resolving' = [resolving EXCEPT ![t] = skip]
                /\ sev' = NoScopeEvent
                /\ UNCHANGED scope_lock
           ELSE IF Len(resolving[t]) >= MaxDepth
           THEN scope_raise(t, Exc("RecursionError", "lookup", key))
           ELSE IF j = 0
           THEN /\ resolving' = [resolving EXCEPT ![t] = skip]
                /\ sev' = NoScopeEvent
                /\ UNCHANGED scope_lock
           ELSE /\ resolving' = [resolving EXCEPT ![t] =
                        Append(@, ScopeFrame(resolving_chain[t][j], key))]
                /\ sev' = NoScopeEvent
                /\ UNCHANGED scope_lock
    /\ UNCHANGED <<scope_registry, scope_cache, resolving_chain, is_active, scope_stack,
                   with_blocks, inherited, cleared, started, sops>>
    /\ UNCHANGED outsideScopes

\* The resolver is called with what was resolved.
scope_lookup_call(t) ==
    /\ ResolvingAt(t, "body")
    /\ ~IsCachedOrValue(t)
    /\ Found(t).kind = "resolver"
    /\ Resolving(t).i > Len(Found(t).resolver.params)
    /\ LET f == Resolving(t)
           bound == Bind(Found(t).resolver.params, f.args)
           result == Obj(f.key, 0, bound)
       IN  IF \E j \in 1..Len(bound) : bound[j] = Empty
           THEN scope_raise(t, Exc("TypeError", "call", f.key)) /\ UNCHANGED scope_cache
           ELSE IF Found(t).resolver.body /= "return"
           THEN scope_raise(t, Exc(Found(t).resolver.body, "body", f.key))
                /\ UNCHANGED scope_cache
           ELSE /\ scope_return(t, result)
                /\ scope_cache' = IF Found(t).evaluate_once
                                  THEN [scope_cache EXCEPT ![f.scope][f.key] = result]
                                  ELSE scope_cache
    /\ UNCHANGED <<scope_registry, resolving_chain, is_active, scope_stack,
                   with_blocks, inherited, cleared, started, sops>>
    /\ UNCHANGED outsideScopes

\* register_value and register_resolver take the lock of the scope too.
scope_register_locked(c, S) ==
    /\ resolving[c] = <<>>
    /\ \A s \in S : RLock_acquire(scope_lock[s], c)

(***************************************************************************)
(* Two threads share two scopes: the main thread fills them and starts the  *)
(* other, both call functions decorated with @inject(scopes=[s1, s2]).      *)
(***************************************************************************)
LockedChains == {<<"s1", "s2">>}
LockedKeys == {"a", "b"}

NextScopeMT ==
    \/ scope_register_locked(Caller, {"s1"})
         /\ scope_register_resolver(Caller, {"s1"}, {"a"}, {<<WithInject("b"), FALSE>>})
    \/ scope_register_locked(Caller, {"s2"})
         /\ scope_register_resolver(Caller, {"s2"}, {"b"},
                                    {<<WithInject("c"), TRUE>>, <<Plain("ValueError"), FALSE>>})
    \/ scope_register_locked(Caller, {"s1"})
         /\ scope_register_value(Caller, {"s1"}, {"c"}, {"v1"})
    \/ \E c \in Threads : resolving[Caller] = <<>> /\ Thread_start(Caller, c)
    \/ \E t \in Threads :
        \/ scope_lookup_start(t, LockedKeys, LockedChains)
        \/ scope_lock_acquire(t)
        \/ scope_lookup_found(t)
        \/ scope_lookup_param(t)
        \/ scope_lookup_call(t)

SpecScopeMT == Init /\ [][NextScopeMT]_vars

(***************************************************************************)
(* Properties                                                              *)
(***************************************************************************)
IsResolver(k) == registry[k].kind = "resolver"
IsOnce(k) == IsResolver(k) /\ registry[k].evaluate_once
Ends(fn, kind) == ev.fn = fn /\ ev.kind = kind
RegisterFns == {"register_value", "register_resolver"}

\* The Inject edges of the registry: k -> d when the resolver registered
\* under k has a parameter whose default is Inject[d].
Edges ==
    {e \in Keys \X Keys :
        /\ IsResolver(e[1])
        /\ \E i \in 1..Len(registry[e[1]].resolver.params) :
              registry[e[1]].resolver.params[i].default = Inject(e[2])}

Compose(R, S) == {e \in Keys \X Keys : \E y \in Keys : <<e[1], y>> \in R /\ <<y, e[2]>> \in S}

RECURSIVE PathsUpTo(_, _)
PathsUpTo(R, n) == IF n = 0 THEN R ELSE PathsUpTo(R \cup Compose(R, R), n - 1)

Paths == PathsUpTo(Edges, Cardinality(Keys))

\* C1: whatever was registered, in whatever order, the graph of the Inject
\* edges of the registry has no cycle and no self-loop.
C1_RegistryAcyclic == \A k \in Keys : <<k, k>> \notin Paths

\* A registration was refused as circular because a resolver registered
\* earlier refers forward to its key.
C1_Witness ==
    /\ Ends("register_resolver", "raise")
    /\ ev.exc.origin = "circular"
    /\ \E k \in Keys \ {ev.key} : <<k, ev.key>> \in Edges

\* C2: registration is atomic: no step of a register_value or
\* register_resolver call changes the registry or the cache, except the step
\* in which the call returns; a call that raises has changed nothing.
C2_RegistrationAtomic ==
    [][\A t \in Threads :
          (/\ stack[t] /= <<>>
           /\ stack[t][1].fn \in RegisterFns
           /\ stack'[t] /= stack[t])
          => \/ registry' = registry /\ cache' = cache
             \/ ev'.t = t /\ ev'.kind = "return"]_vars

\* "a" depends on "b" and is registered; registering "b" depending on "a"
\* was refused, "b" is not registered and "a" is as it was.
C2_Witness ==
    /\ Ends("register_resolver", "raise")
    /\ ev.key = "b"
    /\ ev.exc = Exc("ValueError", "circular", "b")
    /\ registry["b"] = Absent
    /\ cache["b"] = NoVal
    /\ IsResolver("a")
    /\ registry["a"].resolver = WithInject("b")

\* C3: registering a key that is registered already raises the duplicate
\* error, whatever the old and the new entry are, and leaves the registry and
\* the cache as they were; a lookup of a static value returns the value now
\* registered.
C3_DuplicateRejected ==
    /\ [](Ends("getitem", "return") /\ registry[ev.key].kind = "value"
            => ev.val = registry[ev.key].value)
    /\ [][\A t \in Threads :
            (/\ stack[t] /= <<>>
             /\ Top(t).fn \in RegisterFns
             /\ Top(t).pc = "body"
             /\ registry[Top(t).key].kind /= "absent"
             /\ stack'[t] /= stack[t])
            => /\ ev'.kind = "raise"
               /\ ev'.exc = Exc("ValueError", "duplicate", Top(t).key)
               /\ registry' = registry
               /\ cache' = cache]_vars

\* A resolver was registered over a resolver, and refused.
C3_Witness ==
    /\ Ends("register_resolver", "raise")
    /\ ev.exc.origin = "duplicate"
    /\ IsResolver(ev.key)


\* C4: a resolver registered with evaluate_once, one caller: its body returns
\* an object at most once; from then on that object is in the cache, no
\* further call of the resolver is made, and every lookup returns that object.
C4_EvaluateOnce ==
    \A k \in Keys : IsOnce(k) =>
        /\ returns[k] <= 1
        /\ (cache[k] /= NoVal) <=> (returns[k] = 1)
        /\ cache[k] /= NoVal =>
              cache[k].tag = "object" /\ cache[k].key = k /\ cache[k].n = calls[k]
        /\ (Ends("getitem", "return") /\ ev.key = k) => ev.val = cache[k]

\* The second lookup of an evaluate_once key returned, after one call.
C4_Witness ==
    \E k \in Keys :
        /\ IsOnce(k)
        /\ Ends("getitem", "return")
        /\ ev.key = k
        /\ lookups[k] = 2
        /\ calls[k] = 1

\* C5: a resolver registered without evaluate_once, any number of threads:
\* nothing is cached for its key, every lookup of the key that a raising
\* dependency did not end before the call has called the resolver, and each
\* lookup that returns hands out the object of the latest call.
C5_NotCached ==
    \A k \in Keys : (IsResolver(k) /\ ~registry[k].evaluate_once) =>
        /\ cache[k] = NoVal
        /\ lookups[k] = calls[k] + aborted[k]
        /\ (Ends("getitem", "return") /\ ev.key = k) =>
              ev.val.tag = "object" /\ ev.val.key = k /\ ev.val.n = calls[k]

\* Two threads have issued a lookup of the key at the same time: one has
\* returned the object of its call, the other is waiting for the lock.
C5_Witness ==
    \E k \in Keys, t \in Threads, u \in Threads :
        /\ t /= u
        /\ IsResolver(k) /\ ~registry[k].evaluate_once
        /\ Ends("getitem", "return") /\ ev.key = k /\ ev.t = t
        /\ ev.val = Obj(k, 1, <<>>)
        /\ calls[k] = 1 /\ lookups[k] = 1
        /\ Len(stack[u]) = 1 /\ Top(u).fn = "getitem" /\ Top(u).key = k /\ Top(u).pc = "lock"

\* C6: threads that look up the same evaluate_once key at the same time: the
\* resolver returns an object at most once in total, a body that returns is
\* called at most once, and every lookup returns the cached object of that call.
C6_OnceUnderContention ==
    \A k \in Keys : IsOnce(k) =>
        /\ returns[k] <= 1
        /\ registry[k].resolver.body = "return" => calls[k] <= 1
        /\ (Ends("getitem", "return") /\ ev.key = k) =>
              ev.val.key = k /\ ev.val.n = 1 /\ ev.val = cache[k]

\* One thread has just resolved and cached the key while the lookup of the
\* other thread, issued before, waits for the lock.
C6_Witness ==
    \E k \in Keys, t \in Threads, u \in Threads :
        /\ t /= u
        /\ IsOnce(k)
        /\ Ends("getitem", "return") /\ ev.key = k /\ ev.t = t
        /\ calls[k] = 1 /\ lookups[k] = 1
        /\ Len(stack[u]) = 1 /\ Top(u).fn = "getitem" /\ Top(u).key = k /\ Top(u).pc = "lock"

\* C7: an exception raised by a resolver body during a lookup is the
\* exception the lookup raises to its caller.
C7_ExceptionPropagates ==
    (ev.fn = "getitem" /\ ev.depth = 1 /\ bodyExc[ev.t] /= NoExc)
        => (ev.kind = "raise" /\ ev.exc = bodyExc[ev.t])

\* C8: a lookup that raises leaves no cache entry for its key, and as long as
\* an evaluate_once key has no cache entry every lookup of it calls the
\* resolver again (unless a raising dependency ends it before the call).
C8_FailedLookupNotCached ==
    /\ Ends("getitem", "raise") => cache[ev.key] = NoVal
    /\ \A k \in Keys : (IsOnce(k) /\ cache[k] = NoVal) =>
          returns[k] = 0 /\ lookups[k] = calls[k] + aborted[k]

\* The second lookup of an evaluate_once key whose body raises has called the
\* body a second time.
C8_Witness ==
    \E k \in Keys :
        /\ IsOnce(k)
        /\ Ends("getitem", "raise") /\ ev.key = k
        /\ ev.exc = Exc("ValueError", "body", k)
        /\ calls[k] = 2

\* The lookup of ev.key has ended, its resolver has a parameter i whose default
\* is Inject[d], and d is not registered.
MissingInject(i, d) ==
    /\ ev.fn = "getitem"
    /\ IsResolver(ev.key)
    /\ i \in 1..Len(registry[ev.key].resolver.params)
    /\ registry[ev.key].resolver.params[i].default = Inject(d)
    /\ registry[d].kind = "absent"

C10_DependencyByName ==
    \A i \in 1..2 :
        (/\ ev.fn = "getitem"
         /\ IsResolver(ev.key)
         /\ ~IsOnce(ev.key)
         /\ i \in 1..Len(registry[ev.key].resolver.params)
         /\ ~isinstance_Inject(registry[ev.key].resolver.params[i].default)
         /\ registry[ev.key].resolver.params[i].name \in Keys
         /\ registry[registry[ev.key].resolver.params[i].name].kind = "value")
        => /\ ev.kind = "return"
           /\ ev.val.args[i] = registry[registry[ev.key].resolver.params[i].name].value


(***************************************************************************)
(* Properties of the scopes                                                *)
(***************************************************************************)
ScopeEnds(fn, kind) == sev.fn = fn /\ sev.kind = kind
IsValueIn(s, k) == scope_registry[s][k].kind = "value"
IsAbsentIn(s, k) == scope_registry[s][k].kind = "absent" /\ scope_cache[s][k] = NoVal
\* The lookup that has just ended searched the active scopes of its context.
AmbientLookup ==
    /\ sev.fn \in {"inject", "resolve_dependency"}
    /\ sev.chain = scope_stack[sev.c]

\* C11: a lookup against the active scopes returns the value the innermost
\* active scope registers for the key, also when an outer active scope
\* registers the key too -- so once the inner scope has exited and the outer
\* one is the top of the stack, the outer scope's value; a key that the
\* innermost scope does not register and the scope below it registers as a
\* value is found there.
C11_NestedPrecedence ==
    AmbientLookup =>
        LET st == scope_stack[sev.c]
            n == Len(st)
        IN  /\ (n >= 1 /\ IsValueIn(st[n], sev.key))
                => (sev.kind = "return" /\ sev.val = scope_registry[st[n]][sev.key].value)
            /\ (n >= 2 /\ IsAbsentIn(st[n], sev.key) /\ IsValueIn(st[n - 1], sev.key))
                => (sev.kind = "return" /\ sev.val = scope_registry[st[n - 1]][sev.key].value)

\* s1 and, inside it, s2 are active and register the same key with different
\* values; the lookup returned the value of s2.
C11_Witness ==
    \E k \in ScopeKeys :
        /\ AmbientLookup
        /\ sev.key = k
        /\ scope_stack[sev.c] = <<"s1", "s2">>
        /\ scope_registry["s1"][k] = ValueEntry(Val("v1"))
        /\ scope_registry["s2"][k] = ValueEntry(Val("v2"))
        /\ sev.kind = "return"
        /\ sev.val = Val("v2")

\* The step is the enter, or the exit, of scope s by context c.
EnterStep(c, s) == sev'.fn = "enter" /\ sev'.c = c /\ sev'.scope = s /\ sops' /= sops
ExitStep(c, s) == sev'.fn = "exit" /\ sev'.c = c /\ sev'.scope = s /\ sops' /= sops
EmptyScope(s) == \A k \in Keys : IsAbsentIn(s, k)

\* C12: a scope becomes active when it is entered and inactive when it is
\* exited, and at no other step; whether the with-body ran to its end or
\* raised (the exit then ends with the exception), after the exit the scope
\* is inactive, its entry is off the stack of the context, and its registry
\* and cache are empty; and a lookup in a scope of a key the scope does not
\* hold raises the not-found error.
C12_ScopeLifecycle ==
    /\ []((sev.fn = "getitem" /\ IsAbsentIn(sev.scope, sev.key))
            => (sev.kind = "raise"
                /\ sev.exc = Exc("DependencyNotFoundError", "lookup", sev.key)))
    /\ [][\A c \in Threads, s \in Scopes :
            /\ EnterStep(c, s) => (is_active'[s] /\ Last(scope_stack'[c]) = s)
            /\ ExitStep(c, s) =>
                  /\ ~is_active'[s]
                  /\ (scope_stack[c] /= <<>> /\ Last(scope_stack[c]) = s)
                        => scope_stack'[c] = Front(scope_stack[c])
                  /\ Len(scope_stack'[c]) <= Len(with_blocks'[c])
                  /\ EmptyScope(s)'
            /\ is_active'[s] /= is_active[s]
                  => \E d \in Threads : EnterStep(d, s) \/ ExitStep(d, s)]_vars

\* Inside the active s1, the with-block of s2 was ended by an exception: s2
\* is inactive, off the stack and empty, s1 is as it was.
C12_Witness ==
    /\ ScopeEnds("exit", "raise")
    /\ sev.scope = "s2"
    /\ sev.exc = Exc("ValueError", "with-body", "")
    /\ ~is_active["s2"]
    /\ EmptyScope("s2")
    /\ scope_stack[sev.c] = <<"s1">>
    /\ is_active["s1"]
    /\ IsValueIn("s1", "a")

\* C13 as stated: the stack of every context is the sequence of the scopes
\* whose with-block is open in the context, in entry order.
C13_StackIsEnteredScopes ==
    \A c \in Threads : started[c] /= "no" => get_active_scopes(c) = with_blocks[c]

\* The scopes entered in c, not yet exited, and not taken off by clear_scope_stack().
OpenOnStack(c) == SubSeq(with_blocks[c], cleared[c] + 1, Len(with_blocks[c]))

\* C13, amended: the stack of every context is the scopes the context was
\* started with (none for a thread, those of its creator for a task),
\* followed by the scopes entered in it and not yet exited, in entry order --
\* until clear_scope_stack() empties it; from then on it is the scopes
\* entered since and not yet exited.  So an enter appends, an exit takes the
\* scope off the top, and when every scope entered is exited the stack is
\* what it was before the first of them was entered.
C13_StackIsOpenBlocks ==
    \A c \in Threads :
        started[c] /= "no" => get_active_scopes(c) = inherited[c] \o OpenOnStack(c)

\* s1 was entered, the stack was cleared, s2 was entered: the with-blocks of
\* s1 and s2 are open and the stack holds s2.
C13_Witness ==
    \E c \in Threads :
        /\ with_blocks[c] = <<"s1", "s2">>
        /\ cleared[c] = 1
        /\ get_active_scopes(c) = <<"s2">>

\* The scope is the top of the stack.
OnTop(c, s) == scope_stack[c] /= <<>> /\ Last(scope_stack[c]) = s

\* C14: an exit of a scope that is not the top of the stack of its context
\* ends with an error raised by the exit, and leaves the stack as it was.
C14_ExitNotOnTopFails ==
    [][\A c \in Threads, s \in Scopes :
          (ExitStep(c, s) /\ ~OnTop(c, s))
            => /\ sev'.kind = "raise"
               /\ sev'.exc.origin = "exit"
               /\ scope_stack'[c] = scope_stack[c]]_vars


\* The lookup that has just ended was given an explicit list of scopes.
ExplicitLookup == sev.fn \in {"inject", "ainject"} /\ sev.given /= <<>>
\* The key is registered in an active scope of the context of the lookup.
InActiveScope(k) ==
    \E i \in 1..Len(scope_stack[sev.c]) : ~IsAbsentIn(scope_stack[sev.c][i], k)

\* C15: a lookup that is given an explicit list of scopes searches those
\* only: a key that none of them holds is not found, also when an active scope
\* registers it; and the value that the last-listed scope registers for the
\* key is returned, also when a scope listed before it registers the key too.
C15_ExplicitScopesReplace ==
    ExplicitLookup =>
        LET g == sev.given IN
        /\ (\A i \in 1..Len(g) : IsAbsentIn(g[i], sev.key))
              => (sev.kind = "raise"
                  /\ sev.exc = Exc("DependencyNotFoundError", "lookup", sev.key))
        /\ IsValueIn(Last(g), sev.key)
              => (sev.kind = "return" /\ sev.val = scope_registry[Last(g)][sev.key].value)

\* s1 is active and registers the key, the lookup was given the list [s2],
\* s2 does not hold the key: not found.
C15_Witness ==
    /\ ExplicitLookup
    /\ sev.given = <<"s2">>
    /\ scope_stack[sev.c] = <<"s1">>
    /\ IsValueIn("s1", sev.key)
    /\ IsAbsentIn("s2", sev.key)
    /\ InActiveScope(sev.key)
    /\ sev.kind = "raise"
    /\ sev.exc.type = "DependencyNotFoundError"

\* The lookup was given [s1, s2], both register the key: the value of s2.
C15_LastListedReached ==
    /\ ExplicitLookup
    /\ sev.given = <<"s1", "s2">>
    /\ IsValueIn("s1", sev.key)
    /\ IsValueIn("s2", sev.key)
    /\ sev.val = Val("v2")


\* The key is registered in the scope as a resolver that is called at every
\* lookup and has the one parameter dep = Inject[d].
IsResolverOn(s, k, d) ==
    /\ scope_registry[s][k].kind = "resolver"
    /\ ~scope_registry[s][k].evaluate_once
    /\ scope_registry[s][k].resolver = WithInject(d)

\* C16: the dependency of a resolver is looked up in the whole chain of the
\* lookup, innermost scope first: when the resolver of the key is found in an
\* outer active scope and an inner active scope registers the resolver's
\* dependency as a value, the resolver is called with the inner scope's value.
C16_CrossScopeDependency ==
    \A d \in ScopeKeys :
        LET st == scope_stack[sev.c]
            n == Len(st)
        IN  (/\ AmbientLookup
             /\ n >= 2
             /\ IsAbsentIn(st[n], sev.key)
             /\ IsResolverOn(st[n - 1], sev.key, d)
             /\ IsValueIn(st[n], d))
            => /\ sev.kind = "return"
               /\ sev.val = Obj(sev.key, 0, <<scope_registry[st[n]][d].value>>)

\* The resolver of "a" is registered in s1 only, its dependency "b" in s2
\* only, s2 was entered inside s1: the lookup of "a" returned the object built
\* from the value of s2.
C16_Witness ==
    /\ AmbientLookup
    /\ sev.key = "a"
    /\ scope_stack[sev.c] = <<"s1", "s2">>
    /\ IsResolverOn("s1", "a", "b")
    /\ IsAbsentIn("s1", "b")
    /\ IsAbsentIn("s2", "a")
    /\ IsValueIn("s2", "b")
    /\ sev.kind = "return"
    /\ sev.val = Obj("a", 0, <<Val("v2")>>)


\* The context is a thread: the main thread or one started by Thread.start().
IsThread(c) == started[c] \in {"main", "thread"}
\* The scopes whose with-block is open in the context.
EnteredBy(c) == {with_blocks[c][i] : i \in 1..Len(with_blocks[c])}

\* C17: the stack of a thread holds only scopes that the thread itself
\* entered, and a lookup of the active scopes by a thread is answered from
\* the scopes the thread itself entered: with a value one of them registers,
\* or with the not-found error when none of them holds the key, whatever the
\* scopes active in the other threads hold.
C17_ThreadLocalStack ==
    /\ \A c \in Threads :
          IsThread(c) =>
              \A i \in 1..Len(get_active_scopes(c)) : get_active_scopes(c)[i] \in EnteredBy(c)
    /\ (sev.fn = "resolve_dependency" /\ IsThread(sev.c)) =>
          /\ sev.kind = "return"
                => \E s \in EnteredBy(sev.c) :
                      IsValueIn(s, sev.key) /\ sev.val = scope_registry[s][sev.key].value
          /\ (\A s \in EnteredBy(sev.c) : IsAbsentIn(s, sev.key))
                => (sev.kind = "raise" /\ sev.exc.type = "DependencyNotFoundError")

\* Thread t1 is inside s1, which registers the key; thread t2 is inside s2,
\* which does not: the lookup by t2 did not find the key.
C17_Witness ==
    /\ sev.fn = "resolve_dependency"
    /\ sev.c = "t2"
    /\ started["t2"] = "thread"
    /\ get_active_scopes("t1") = <<"s1">>
    /\ get_active_scopes("t2") = <<"s2">>
    /\ IsValueIn("s1", sev.key)
    /\ IsAbsentIn("s2", sev.key)
    /\ sev.kind = "raise"
    /\ sev.exc.type = "DependencyNotFoundError"


\* The step is asyncio.create_task() by context p, and c is the new task.
CreateTaskStep(p, c) ==
    /\ sev'.fn = "create_task" /\ sev'.c = p /\ sops' /= sops
    /\ started[c] = "no" /\ started'[c] = "task"

\* C18: a task starts with the stack its creator has when it creates the
\* task, and every context, task or not, resolves a key from its own stack:
\* to the value that the innermost scope of its stack registers, so a task
\* without scopes of its own to the value in the scopes it inherited, and two
\* contexts that each entered their own scope each to the value of their own
\* scope.
C18_TaskInheritsAndIsolates ==
    /\ [][\A p \in Threads, c \in Threads :
            CreateTaskStep(p, c) => get_active_scopes(c)' = get_active_scopes(p)]_vars
    /\ [](sev.fn = "resolve_dependency" =>
            LET st == get_active_scopes(sev.c) IN
            /\ (st /= <<>> /\ IsValueIn(Last(st), sev.key))
                  => (sev.kind = "return"
                      /\ sev.val = scope_registry[Last(st)][sev.key].value)
            /\ (\A i \in 1..Len(st) : IsAbsentIn(st[i], sev.key))
                  => (sev.kind = "raise" /\ sev.exc.type = "DependencyNotFoundError"))

\* The task t2 was created inside s1 and has entered no scope of its own: its
\* lookup returned the value of s1.
C18_Witness ==
    /\ sev.fn = "resolve_dependency"
    /\ sev.c = "t2"
    /\ started["t2"] = "task"
    /\ inherited["t2"] = <<"s1">>
    /\ with_blocks["t2"] = <<>>
    /\ get_active_scopes("t2") = <<"s1">>
    /\ IsValueIn("s1", sev.key)
    /\ sev.kind = "return"
    /\ sev.val = scope_registry["s1"][sev.key].value

\* Two contexts, each inside a scope of its own with a value of its own for
\* the key: the lookup by the task returned the value of the task's scope.
C18_IsolationReached ==
    /\ sev.fn = "resolve_dependency"
    /\ sev.c = "t2"
    /\ started["t2"] = "task"
    /\ get_active_scopes("t1") = <<"s1">>
    /\ get_active_scopes("t2") = <<"s2">>
    /\ IsValueIn("s1", sev.key)
    /\ IsValueIn("s2", sev.key)
    /\ scope_registry["s1"][sev.key].value /= scope_registry["s2"][sev.key].value
    /\ sev.val = scope_registry["s2"][sev.key].value


\* The lookup that has just ended found the key registered with
\* register_async_resolver, in the innermost scope of its chain that holds it.
ReachedAsyncResolver ==
    LET i == find_scope(scope_cache, sev.chain, sev.key) IN
    /\ sev.fn \in {"getitem", "resolve_dependency", "inject", "ainject"}
    /\ i /= 0
    /\ scope_registry[sev.chain[i]][sev.key].kind = "async_resolver"
    /\ scope_cache[sev.chain[i]][sev.key] = NoVal
IsAwaited(v) == v.tag = "object"

C19_AwaitedReached == sev.fn = "ainject" /\ ReachedAsyncResolver /\ IsAwaited(sev.val)
C19_AwaitableReached == sev.fn = "getitem" /\ ReachedAsyncResolver /\ sev.val = Awaitable(sev.key)


\* Thread t waits for a scope lock that thread u holds.
WaitsFor(t, u) ==
    /\ ResolvingAt(t, "lock")
    /\ scope_lock[Resolving(t).scope].owner = u
    /\ u /= t

\* C20: no lookup through the scopes blocks forever: no thread waits for a
\* lock it holds itself, a thread that has no lookup in progress holds no
\* lock, whether its lookup returned or raised, and no two threads each wait
\* for a scope lock that the other holds.
C20_NoLookupBlocksForever ==
    /\ \A t \in Threads :
          ResolvingAt(t, "lock") => scope_lock[Resolving(t).scope].owner /= t
                                    \/ RLock_acquire(scope_lock[Resolving(t).scope], t)
    /\ \A t \in Threads, s \in Scopes :
          resolving[t] = <<>> => scope_lock[s].owner /= t
    /\ \A t \in Threads, u \in Threads : ~(WaitsFor(t, u) /\ WaitsFor(u, t))

\* The parts of C20 that hold: a lock is held by the thread whose lookups in
\* progress took it, as many times as they took it.
ScopeLockDiscipline ==
    \A s \in Scopes :
        /\ scope_lock[s].owner /= NoThread
              => scope_lock[s].count = Holds(scope_lock[s].owner, s) /\ scope_lock[s].count > 0
        /\ \A t \in Threads : t /= scope_lock[s].owner => Holds(t, s) = 0
\* A thread took the lock of a scope a second time while it held it.
ScopeLockReentered == \E s \in Scopes : scope_lock[s].count = 2
\* A lookup raised while it held locks, and holds none now.
ScopeLockReleasedOnRaise ==
    /\ sev.fn = "inject" /\ sev.kind = "raise" /\ sev.exc.type = "ValueError"
    /\ \A s \in Scopes : scope_lock[s].owner /= sev.c


\* The same for the store, which has one lock: the lock is held by the thread
\* whose frames are inside their with-block, once per frame, and by no
\* thread when no operation is in progress.
HeldFrames(t) == Cardinality({i \in 1..Len(stack[t]) : stack[t][i].pc /= "lock"})
StoreLockDiscipline ==
    /\ lock.owner /= NoThread => (lock.count = HeldFrames(lock.owner) /\ lock.count > 0)
    /\ \A t \in Threads : t /= lock.owner => HeldFrames(t) = 0
    /\ lock.owner = NoThread => lock.count = 0
\* A thread took the lock of the store a second time while it held it.
StoreLockReentered == lock.count = 2
\* The thread that waits for the lock of the store waits for a thread that
\* does not wait.
StoreLockNoWaitCycle ==
    \A t \in Threads :
        (stack[t] /= <<>> /\ Top(t).pc = "lock" /\ ~RLock_acquire(lock, t))
            => /\ stack[lock.owner] /= <<>>
               /\ Top(lock.owner).pc = "lock" => RLock_acquire(lock, lock.owner)



(***************************************************************************)
(* Properties of the class and of the decorator                            *)
(***************************************************************************)
\* C21: two stores constructed separately are two containers: a registration
\* through one fails as a duplicate only of an earlier registration through
\* the same one, and a lookup through one returns the value registered
\* through it.  (Every thread constructs a store and registers its own value.)
C21_ContainersIsolated ==
    /\ (ev.fn = "register_value" /\ ev.kind = "raise" /\ ev.exc.origin = "duplicate")
          => registry[ev.key].value = Val(Own(ev.t))
    /\ (ev.fn = "getitem" /\ ev.kind = "return") => ev.val = Val(Own(ev.t))

\* The same for two scopes: a lookup in a scope returns the value that scope
\* registers for the key.
ScopesIsolated ==
    (sev.fn = "getitem" /\ IsValueIn(sev.scope, sev.key))
        => (sev.kind = "return" /\ sev.val = scope_registry[sev.scope][sev.key].value)
ScopesIsolatedReached ==
    /\ sev.fn = "getitem" /\ sev.scope = "s2" /\ sev.val = Val("v2")
    /\ scope_registry["s1"][sev.key] = ValueEntry(Val("v1"))

\* The step is a call InjectipyStore().
ConstructionStep == ncons' /= ncons

WrapperEnded == wev.t /= NoThread
WrapperEnds == wev' /= wev /\ wev'.t /= NoThread

\* C23: after a call of an @inject-wrapped function has returned or raised,
\* also one that fails while resolving one of its Inject parameters, the
\* function's positional defaults and keyword-only defaults are equal to their
\* original values, the Inject markers.
C23_DefaultsRestored ==
    WrapperEnded =>
        /\ __defaults__ = original_defaults
        /\ __kwdefaults__ = original_kwdefaults

\* What C23 says holds of every call that reaches the function: the finally
\* clause puts both back.
DefaultsRestoredAfterBody ==
    (WrapperEnded /\ wev.ran) =>
        /\ __defaults__ = original_defaults
        /\ __kwdefaults__ = original_kwdefaults
DefaultsRestoredAfterBodyReached ==
    /\ WrapperEnded /\ wev.ran /\ wev.kind = "raise"
    /\ Len(original_defaults) = 1
    /\ __defaults__ = original_defaults

\* C24: an explicit argument overrides injection: the body receives the
\* explicit argument for an Inject parameter, and a call that passes explicit
\* arguments for all its Inject parameters behaves like a normal call, running
\* the body, whether or not their keys are registered.
C24_ExplicitOverrides ==
    WrapperEnded =>
        /\ (wev.kind = "return" =>
                \A i \in 1..Len(original_func.params) :
                    original_func.params[i].name \in wev.explicit => wev.val.args[i] = Explicit)
        /\ (InjectNames(original_func) \subseteq wev.explicit => wev.ran)

\* The first half of C24 alone: when the body runs, it receives the explicit
\* arguments.
ExplicitReachesBody ==
    (WrapperEnded /\ wev.kind = "return") =>
        \A i \in 1..Len(original_func.params) :
            original_func.params[i].name \in wev.explicit => wev.val.args[i] = Explicit
ExplicitReachesBodyReached ==
    /\ WrapperEnded /\ wev.kind = "return"
    /\ wev.explicit = {"y"}
    /\ Len(original_func.params) = 2
    /\ wev.val.args = <<Val("v1"), Explicit>>

\* A key whose lookup returns.
Resolvable(reg, key) ==
    \/ reg[key].kind = "value"
    \/ reg[key].kind = "resolver" /\ reg[key].resolver.body = "return"

\* C25: a call of an @inject-wrapped function, without an explicit argument
\* for an Inject[K] parameter, while K is not registered (and the Inject
\* parameters before it resolve) raises an error that names K and has the
\* KeyError of the lookup of K as its cause, and the body is not executed.
C25_UnresolvedKeyRaises ==
    [][WrapperEnds =>
        \A i \in 1..Len(original_func.params) :
            LET p == original_func.params[i]
                K == get_inject_key(p.default)
            IN  ( /\ isinstance_Inject(p.default)
                  /\ p.name \notin wev'.explicit
                  /\ registry[K].kind = "absent"
                  /\ \A j \in 1..(i - 1) :
                        Resolvable(registry, get_inject_key(original_func.params[j].default)) )
                => /\ wev'.kind = "raise"
                   /\ wev'.exc = Exc("RuntimeError", "inject", K)
                   /\ wev'.cause = Exc("KeyError", "lookup", K)
                   /\ ~wev'.ran]_vars

C25_Witness ==
    /\ WrapperEnded
    /\ wev.explicit = {}
    /\ Len(original_func.params) = 2
    /\ registry["a"].kind = "resolver"
    /\ registry["b"].kind = "absent"
    /\ wev.exc = Exc("RuntimeError", "inject", "b")
    /\ wev.cause = Exc("KeyError", "lookup", "b")

\* C28: a call of a decorated function with an Inject marker on a
\* positional-only parameter is rejected with the positional-only injection
\* error; the function is not invoked with an injected value for it.
C28_PositionalOnlyRejected ==
    (WrapperEnded /\ \E i \in 1..Len(original_func.params) :
                        /\ original_func.params[i].kind = "POSITIONAL_ONLY"
                        /\ isinstance_Inject(original_func.params[i].default))
        => /\ wev.kind = "raise"
           /\ wev.exc.type = "PositionalOnlyInjectionError"
           /\ ~wev.ran


\* The caller is in a lookup of k that it started itself.
TopLevelLookup(k) ==
    /\ Len(stack[Caller]) = 1
    /\ Top(Caller).fn = "getitem"
    /\ Top(Caller).key = k

\* C26: looking up a key that is registered nowhere raises the not-found
\* error, a KeyError that carries the key, and leaves the registry and the
\* cache unchanged.
C26_NotFoundNamesKey ==
    [][\A k \in Keys :
         (TopLevelLookup(k) /\ registry[k].kind = "absent") =>
            /\ registry' = registry
            /\ cache' = cache
            /\ (Top(Caller).pc = "body" =>
                    /\ stack'[Caller] = <<>>
                    /\ ev' = [key |-> k, kind |-> "raise", fn |-> "getitem", val |-> NoVal,
                              exc |-> Exc("KeyError", "lookup", k), t |-> Caller, depth |-> 1])]_vars

C26_Witness ==
    /\ ev.fn = "getitem"
    /\ ev.depth = 1
    /\ ev.exc = Exc("KeyError", "lookup", ev.key)
    /\ registry[ev.key].kind = "absent"
    /\ \E k \in Keys : registry[k].kind = "resolver" /\ cache[k] /= NoVal

\* The same for a lookup in scopes: a key that none of the searched scopes
\* holds raises DependencyNotFoundError for that key.
ScopeNotFoundNamesKey ==
    (sev.fn = "getitem" /\ sev.chain /= <<>>
        /\ \A i \in 1..Len(sev.chain) : scope_registry[sev.chain[i]][sev.key].kind = "absent")
        => (sev.kind = "raise" /\ sev.exc = Exc("DependencyNotFoundError", "lookup", sev.key))

ScopeNotFoundReached ==
    /\ sev.fn = "getitem"
    /\ Len(sev.chain) = 1
    /\ \A i \in 1..Len(sev.chain) : scope_registry[sev.chain[i]][sev.key].kind = "absent"
    /\ sev.exc = Exc("DependencyNotFoundError", "lookup", sev.key)


(***************************************************************************)
(* Registrations of resolvers of every shape: one or two Inject            *)
(* dependencies, keyword-only ones, and the parameter kinds that            *)
(* _validate_resolver_signature refuses.                                    *)
(***************************************************************************)
\* lambda dep1=Inject[d1], dep2=Inject[d2]: ...
WithInject2(d1, d2) ==
    Resolver(<<Param("dep1", "POSITIONAL_OR_KEYWORD", Inject(d1)),
               Param("dep2", "POSITIONAL_OR_KEYWORD", Inject(d2))>>, "return")
\* lambda *, dep=Inject[d]: ...
KeywordOnlyInject(d) == Resolver(<<Param("dep", "KEYWORD_ONLY", Inject(d))>>, "return")
\* lambda **kwargs: ...
KwArgs == Resolver(<<Param("kwargs", "VAR_KEYWORD", Empty)>>, "return")
\* lambda x, /: ...
PositionalOnly == Resolver(<<Param("x", "POSITIONAL_ONLY", Empty)>>, "return")
\* lambda dep=Inject[d], *args: ...
InjectAndVarArgs(d) ==
    Resolver(<<Param("dep", "POSITIONAL_OR_KEYWORD", Inject(d)),
               Param("args", "VAR_POSITIONAL", Empty)>>, "return")

GraphRegistrations ==
    ( {WithInject(d) : d \in Keys}
      \cup {WithInject2(p[1], p[2]) : p \in {<<"a", "b">>, <<"a", "c">>, <<"b", "c">>}}
      \cup {Plain("return"), KeywordOnlyInject("b"), VarArgs, KwArgs, PositionalOnly,
            InjectAndVarArgs("a")} ) \X {FALSE}

NextGraph ==
    \/ register_value(Caller, Keys, {"v1"})
    \/ register_resolver(Caller, Keys, GraphRegistrations)
    \/ acquire(Caller)
    \/ register_value_check(Caller)
    \/ register_value_write(Caller)
    \/ register_resolver_check(Caller)
    \/ register_resolver_write(Caller)

SpecGraph == Init /\ [][NextGraph]_vars

\* The caller is at the checks of register_resolver(k, r), k not registered.
Checking(k, r) ==
    /\ At(Caller, "register_resolver", "body")
    /\ Top(Caller).key = k
    /\ Top(Caller).resolver = r
    /\ registry[k].kind = "absent"

Refused(origin, k) ==
    /\ stack'[Caller] = <<>>
    /\ ev'.kind = "raise"
    /\ ev'.exc = Exc("ValueError", origin, k)
    /\ registry' = registry
    /\ cache' = cache

GoodKinds == {"POSITIONAL_OR_KEYWORD", "KEYWORD_ONLY"}
AllGoodKinds(r) == \A i \in 1..Len(r.params) : r.params[i].kind \in GoodKinds

\* C27: register_resolver accepts a callable only if every one of its
\* parameters is positional-or-keyword or keyword-only: a callable with *args,
\* **kwargs or a parameter of any other kind is rejected with the ValueError
\* of the signature check, and the key stays unregistered.
C27_SignatureValidated ==
    [][\A k \in Keys, x \in GraphRegistrations :
          Checking(k, x[1]) =>
             /\ (~AllGoodKinds(x[1]) => Refused("signature", k))
             /\ (AllGoodKinds(x[1]) => ev'.exc.origin /= "signature")]_vars

C27_Witness ==
    /\ Ends("register_resolver", "raise")
    /\ ev.exc = Exc("ValueError", "signature", "b")
    /\ registry["b"] = Absent
    /\ IsResolver("a")
    /\ registry["a"].resolver = KeywordOnlyInject("b")

\* The keys a resolver names in Inject defaults.
Deps(r) == {d \in Keys : \E i \in 1..Len(r.params) : r.params[i].default = Inject(d)}

\* C29: the cycle check is exact: register_resolver(K, r) raises the
\* circular-dependency error if and only if some Inject dependency d of r
\* equals K or reaches K by following the Inject edges of the resolvers
\* already registered; otherwise the registration goes on to the write.
C29_CycleCheckExact ==
    [][\A k \in Keys, x \in GraphRegistrations :
          (Checking(k, x[1]) /\ AllGoodKinds(x[1])) =>
             IF \E d \in Deps(x[1]) : d = k \/ <<d, k>> \in Paths
             THEN Refused("circular", k)
             ELSE /\ stack'[Caller] = <<[Top(Caller) EXCEPT !.pc = "write"]>>
                  /\ registry' = registry]_vars

\* "c" was refused: one of its dependencies reaches it through two resolvers.
C29_Witness ==
    /\ Ends("register_resolver", "raise")
    /\ ev.exc = Exc("ValueError", "circular", "c")
    /\ <<"a", "b">> \in Edges
    /\ <<"b", "c">> \in Edges
    /\ <<"a", "c">> \notin Edges
    /\ registry["c"] = Absent

\* A diamond is accepted: "a" depends on "b" and "c", and "b" on "c", a value.
DiamondAccepted ==
    /\ registry["a"].kind = "resolver"
    /\ registry["a"].resolver = WithInject2("b", "c")
    /\ registry["b"].kind = "resolver"
    /\ registry["b"].resolver = WithInject("c")
    /\ registry["c"].kind = "value"


(***************************************************************************)
(* Forward references: resolvers are registered before the keys they name, *)
(* and a value is only registered for a key that a registered resolver is  *)
(* waiting for.                                                            *)
(***************************************************************************)
ForwardRegistrations == ({WithInject(d) : d \in Keys} \cup {Plain("return")}) \X BOOLEAN

\* d is not registered and a registered resolver names it.
Awaited(d) == registry[d].kind = "absent" /\ \E k \in Keys : <<k, d>> \in Edges

NextForward ==
    \/ register_resolver(Caller, Keys, ForwardRegistrations)
    \/ \E d \in Keys : Awaited(d) /\ register_value(Caller, {d}, Values)
    \/ __getitem__(Caller, Keys)
    \/ acquire(Caller)
    \/ register_value_check(Caller)
    \/ register_value_write(Caller)
    \/ register_resolver_check(Caller)
    \/ register_resolver_write(Caller)
    \/ __getitem___check(Caller)
    \/ _resolve_param(Caller)
    \/ _resolve_call(Caller)

SpecForward == Init /\ [][NextForward]_vars

\* C30: forward references bind at lookup time: register_resolver succeeds
\* when the keys the resolver names in Inject defaults (keys other than its
\* own) are not registered yet, and once such a key is registered, every call
\* of the resolver made by a lookup passes it the resolved value of that key.
C30_ForwardReferences ==
    [][/\ \A k \in Keys, x \in ForwardRegistrations :
            ( /\ Checking(k, x[1])
              /\ \A d \in Deps(x[1]) : d /= k /\ registry[d].kind = "absent" )
            => /\ stack'[Caller] = <<[Top(Caller) EXCEPT !.pc = "write"]>>
               /\ ev' = NoEvent
       /\ \A k \in Keys :
            ( /\ calls'[k] = calls[k] + 1
              /\ ev'.kind = "return" )
            => \A i \in 1..Len(registry[k].resolver.params) :
                  LET d == get_inject_key(registry[k].resolver.params[i].default) IN
                  /\ registry[d].kind = "value" => ev'.val.args[i] = registry[d].value
                  /\ registry[d].kind = "resolver" =>
                        (ev'.val.args[i].tag = "object" /\ ev'.val.args[i].key = d)]_vars

\* "a" was registered naming "b" before "b" was registered (no other resolver
\* was waiting for "b" when its value was registered); the lookup of "a" has
\* called the resolver with the value of "b".
C30_Witness ==
    /\ Ends("getitem", "return")
    /\ ev.key = "a"
    /\ registry["a"].kind = "resolver"
    /\ registry["a"].resolver = WithInject("b")
    /\ registry["b"] = ValueEntry(Val("v1"))
    /\ \A k \in Keys \ {"a"} : <<k, "b">> \notin Edges
    /\ ev.val = Obj("a", 1, <<Val("v1")>>)


\* C31: a resolver parameter without an Inject marker whose name is
\* registered nowhere is not supplied and does not make the lookup raise a
\* not-found error: the resolver is called without it and runs with its own
\* default for the parameter, or fails with the TypeError of the missing
\* argument when it has none.
C31_MissingParameterFallback ==
    \A default \in {Empty, Val("d")} :
        ( /\ ev.fn = "getitem"
          /\ IsResolver(ev.key)
          /\ registry[ev.key].resolver = ByName(default)
          /\ registry[ByName(default).params[1].name].kind = "absent" )
        => IF default = Empty
           THEN ev.kind = "raise" /\ ev.exc = Exc("TypeError", "call", ev.key)
           ELSE ev.kind = "return" /\ ev.val.args = <<default>>

\* The resolver ran with its own default.
C31_Witness ==
    /\ Ends("getitem", "return")
    /\ IsResolver(ev.key)
    /\ registry[ev.key].resolver = ByName(Val("d"))
    /\ registry["a"].kind = "absent"
    /\ ev.val = Obj(ev.key, 1, <<Val("d")>>)

\* The resolver without a default failed with the missing-argument error.
MissingArgumentReached ==
    /\ Ends("getitem", "raise")
    /\ IsResolver(ev.key)
    /\ registry[ev.key].resolver = ByName(Empty)
    /\ registry["a"].kind = "absent"
    /\ ev.exc = Exc("TypeError", "call", ev.key)


\* C32: in every reachable state of the store, every cached key is a
\* registered key; the cached keys are exactly the registered values, cached
\* with the registered value, and the evaluate_once resolvers whose resolver
\* has returned at least once; a key registered with evaluate_once=False is
\* never in the cache.
C32_CacheContents ==
    \A k \in Keys :
        /\ (cache[k] /= NoVal => registry[k].kind /= "absent")
        /\ (registry[k].kind = "value" => cache[k] = registry[k].value)
        /\ (IsResolver(k) => (cache[k] /= NoVal <=> (IsOnce(k) /\ returns[k] >= 1)))
        /\ ((IsResolver(k) /\ ~registry[k].evaluate_once) => cache[k] = NoVal)

\* A value and the result of an evaluate_once resolver are cached; the
\* resolver has been called once.
C32_Witness ==
    /\ IsOnce("a")
    /\ returns["a"] = 1
    /\ cache["a"] = Obj("a", 1, <<>>)
    /\ registry["b"] = ValueEntry(Val("v1"))
    /\ cache["b"] = Val("v1")
    /\ registry["c"] = Absent

\* A resolver registered with evaluate_once=False has returned and is not cached.
NotOnceReturnedReached ==
    \E k \in Keys : IsResolver(k) /\ ~registry[k].evaluate_once /\ returns[k] >= 1 /\ cache[k] = NoVal

\* An evaluate_once resolver that has only failed is not cached.
OnceFailedReached ==
    \E k \in Keys : IsOnce(k) /\ calls[k] >= 1 /\ returns[k] = 0 /\ cache[k] = NoVal

\* The same for a scope: what is cached is registered, and a registered value
\* is cached with its value.
ScopeCacheContents ==
    \A s \in Scopes, k \in Keys :
        /\ (scope_cache[s][k] /= NoVal => scope_registry[s][k].kind /= "absent")
        /\ (scope_registry[s][k].kind = "value" => scope_cache[s][k] = scope_registry[s][k].value)


(***************************************************************************)
(* Resolvers registered in two scopes, each naming a key of the other      *)
(* scope: every scope validates its own registry only, and a lookup        *)
(* resolves the dependencies against the whole chain.                      *)
(***************************************************************************)
CrossRegistrations == {WithInject(d) : d \in ScopeKeys} \X {FALSE}

NextCross ==
    \/ scope_register_resolver(Caller, Scopes, ScopeKeys, CrossRegistrations)
    \/ scope_register_value(Caller, Scopes, ScopeKeys, {"v1"})
    \/ scope_enter(Caller, Scopes)
    \/ scope_exit(Caller, {"return"})
    \/ scope_getitem(Caller, Scopes, ScopeKeys)
    \/ inject_call(Caller, ScopeKeys, {<<>>})

SpecCross == Init /\ [][NextCross]_vars

\* C33: every lookup terminates: for registrations that the validator
\* accepted, no key is resolved again within its own resolution, also when a
\* resolver's dependencies are found in other scopes of the chain.  (With two
\* keys, a resolution deeper than MaxDepth has resolved a key within its own
\* resolution.)
C33_NoRecursiveResolution ==
    ~(sev.kind = "raise" /\ sev.exc.type = "RecursionError")

\* Within one store no key is looked up within its own lookup: the frames of
\* a thread are lookups of pairwise different keys.
StoreNoRecursiveLookup ==
    \A t \in Threads : \A i, j \in 1..Len(stack[t]) :
        (i /= j /\ stack[t][i].fn = "getitem" /\ stack[t][j].fn = "getitem")
            => stack[t][i].key /= stack[t][j].key
StoreNestedLookupReached ==
    /\ Len(stack[Caller]) = 3
    /\ \A i \in 1..3 : stack[Caller][i].fn = "getitem"

\* Within one scope no lookup recurses either.
ScopeNoRecursiveLookup ==
    (sev.fn = "getitem") => ~(sev.kind = "raise" /\ sev.exc.type = "RecursionError")


(***************************************************************************)
(* Two threads call the same decorated function.  The keys it names are    *)
(* registered as values before the calls.  Taking the result of a lookup   *)
(* into the wrapper's local variable touches nothing shared, so it is      *)
(* scheduled right after the lookup has ended (Taken).  A call that the    *)
(* body makes of its own function is the interleaving in which the second  *)
(* call runs between the binding of the first call's arguments and its     *)
(* finally clause: the wrapper keeps nothing per thread but its locals.    *)
(***************************************************************************)
Taken ==
    \A t \in Threads :
        ~(wrapper[t].pc \in {"defaults_value", "kwdefaults_value"} /\ stack[t] = <<>>)

Registered(f) ==
    \A i \in 1..Len(f.params) :
        isinstance_Inject(f.params[i].default)
            => registry[get_inject_key(f.params[i].default)].kind = "value"

NextInjectMT ==
    \/ Taken /\ \E f \in Funcs : inject(f)
    \/ Taken /\ Idle(Caller) /\ original_func /= NoFunc
             /\ register_value(Caller, InjectKeys, InjectValues)
    \/ \E t \in Threads :
          \/ Taken /\ Registered(original_func) /\ wrapper_call(t, {})
          \/ Taken /\ wrapper_defaults(t)
          \/ wrapper_defaults_value(t)
          \/ Taken /\ wrapper_kwdefaults(t)
          \/ wrapper_kwdefaults_value(t)
          \/ Taken /\ wrapper_original_func(t)
          \/ Taken /\ wrapper_finally(t)
          \/ Taken /\ acquire(t)
          \/ Taken /\ register_value_check(t)
          \/ Taken /\ register_value_write(t)
          \/ Taken /\ __getitem___check(t)

SpecInjectMT == Init /\ [][NextInjectMT]_vars

\* C34: when the same @inject-wrapped function is called from several
\* threads at once, every invocation whose Inject parameters are not passed
\* explicitly executes the body with the resolved values, never with an
\* Inject marker put back by another invocation, and after all invocations
\* have finished the function's defaults are the original ones.
C34_ConcurrentCallsInjected ==
    /\ \A t \in Threads :
          (wrapper[t].pc = "finally" /\ wrapper[t].ran) =>
              \A i \in 1..Len(wrapper[t].new) : ~isinstance_Inject(wrapper[t].new[i])
    /\ ((original_func /= NoFunc /\ \A t \in Threads : Idle(t)) =>
            (__defaults__ = original_defaults /\ __kwdefaults__ = original_kwdefaults))

\* What holds of the concurrent calls: once none is in progress the defaults
\* are the original ones.
DefaultsRestoredWhenIdle ==
    (original_func /= NoFunc /\ \A t \in Threads : Idle(t)) =>
        (__defaults__ = original_defaults /\ __kwdefaults__ = original_kwdefaults)

\* Two calls have overlapped and both have finished.
OverlappingCallsFinished ==
    /\ ncalls = 2
    /\ \A t \in Threads : Idle(t)
    /\ wev.t = "t1"
    /\ wev.ran
    /\ __defaults__ = original_defaults

\* A call made while another call is in its body (as a call made by the body
\* itself is) receives the resolved value, and so did the call it interrupts.
NestedCallInjected ==
    /\ wrapper["t1"].pc = "finally"
    /\ wrapper["t1"].new = <<Val("v1")>>
    /\ wev.t = "t2"
    /\ wev.kind = "return"
    /\ wev.val.args = <<Val("v1")>>
    /\ __defaults__ = original_defaults


(***************************************************************************)
(* One scope shared by two tasks: the key is registered in it first, then  *)
(* each task enters the scope and resolves the key.  The first task leaves *)
(* the scope; the second is the one whose resolutions are observed, in its *)
(* only with-block.                                                        *)
(***************************************************************************)
Second == "t2"

NextShared ==
    \/ sops = 0 /\ scope_register_value(Caller, {"s1"}, {"a"}, {"v1"})
    \/ sops >= 1 /\ create_task(Caller, Second)
    \/ sops >= 1 /\ scope_exit(Caller, {"return"})
    \/ \E c \in Threads : sops >= 1 /\ scope_enter(c, {"s1"})
    \/ \E c \in Threads : sops >= 1 /\ resolve_dependency(c, {"a"})

SpecShared == Init /\ [][NextShared]_vars

\* The resolution that has just ended was made by the second task inside its
\* with-block of the shared scope.
ResolvedInOwnBlock ==
    /\ sev.fn = "resolve_dependency"
    /\ sev.c = Second
    /\ \E i \in 1..Len(with_blocks[Second]) : with_blocks[Second][i] = "s1"

\* C35: one scope shared by several concurrent tasks, each of which enters
\* it, resolves a key registered in it and exits it, serves every task: each
\* task's resolution inside its own enter/exit block returns the registered
\* value, under any interleaving.
C35_SharedScopeServesAll ==
    ResolvedInOwnBlock => (sev.kind = "return" /\ sev.val = Val("v1"))

\* As long as no task has left the scope, it serves every task in it.
SharedScopeServesBeforeExit ==
    (ResolvedInOwnBlock /\ scope_registry["s1"]["a"].kind = "value")
        => (sev.kind = "return" /\ sev.val = Val("v1"))
SharedScopeServesBeforeExitReached ==
    /\ ResolvedInOwnBlock
    /\ sev.val = Val("v1")
    /\ with_blocks["t1"] = <<"s1">>
    /\ with_blocks["t2"] = <<"s1">>


\* clear_scope_stack() is the step that has just been taken by c.
ClearStep(c) == sops' /= sops /\ sev'.c = c /\ sev'.fn = "clear_scope_stack"

\* C36: clear_scope_stack() empties the stack of the calling context at
\* once, also while scopes are still inside their with-blocks; the exits of
\* those scopes, made later, raise no error of their own and the stack
\* remains empty after them.
C36_ClearedStackStaysEmpty ==
    [][\A c \in Threads :
          /\ ClearStep(c) => (scope_stack'[c] = <<>> /\ with_blocks'[c] = with_blocks[c])
          /\ \A s \in Scopes :
                (ExitStep(c, s) /\ Len(with_blocks[c]) <= cleared[c] /\ scope_stack[c] = <<>>)
                    => /\ sev'.exc.origin /= "exit"
                       /\ scope_stack'[c] = <<>>
                       /\ ~is_active'[s]]_vars

\* Two scopes were entered, the stack was cleared inside the inner block and
\* the inner scope has been exited: no error, the stack is still empty and
\* the outer block is still open.
C36_Witness ==
    /\ sev.fn = "exit"
    /\ sev.scope = "s2"
    /\ sev.kind = "return"
    /\ with_blocks[Caller] = <<"s1">>
    /\ cleared[Caller] = 1
    /\ scope_stack[Caller] = <<>>


(***************************************************************************)
(* A scope that is entered again after its exit.  The resolver of "a" is   *)
(* registered in s1 first, evaluated once; then the scopes are entered and *)
(* left and the keys looked up in any order.  "a" is never registered      *)
(* again, so a state in which s1 does not hold "a" is a state after an     *)
(* exit of s1.                                                             *)
(***************************************************************************)
NextReenter ==
    \/ sops = 0 /\ scope_register_resolver(Caller, {"s1"}, {"a"}, {<<Plain("return"), TRUE>>})
    \/ sops >= 1 /\ scope_register_value(Caller, {"s1"}, {"b"}, {"v1"})
    \/ sops >= 1 /\ scope_enter(Caller, Scopes)
    \/ sops >= 1 /\ scope_exit(Caller, BodyEnds)
    \/ sops >= 1 /\ scope_getitem(Caller, {"s1"}, ScopeKeys)
    \/ sops >= 1 /\ resolve_dependency(Caller, ScopeKeys)

SpecReenter == Init /\ [][NextReenter]_vars

\* The step is a lookup of k by c.
LookupStep(c, k) ==
    /\ sops' /= sops
    /\ sev'.c = c
    /\ sev'.fn \in {"getitem", "resolve_dependency"}
    /\ sev'.key = k

\* C37: a scope entered again after its exit starts empty: the exit removes
\* every registration and every cached value, entering the scope again
\* brings nothing back, and a lookup of a key that the scopes searched do not
\* hold raises DependencyNotFoundError, so that no key registered before the
\* exit is resolvable and no value cached before it is returned.
C37_ReenteredScopeIsFresh ==
    [][\A c \in Threads :
          /\ \A s \in Scopes :
                /\ ExitStep(c, s) => EmptyScope(s)'
                /\ EnterStep(c, s) =>
                      /\ sev'.kind = "return"
                      /\ scope_registry' = scope_registry
                      /\ scope_cache' = scope_cache
          /\ \A k \in Keys :
                (LookupStep(c, k) /\ \A s \in Scopes : IsAbsentIn(s, k))
                    => /\ sev'.kind = "raise"
                       /\ sev'.exc = Exc("DependencyNotFoundError", "lookup", k)
                       /\ scope_cache' = scope_cache]_vars

\* s1, which held the resolver of "a" from the start, is the one scope on
\* the stack, inside its with-block, and the lookup of "a" has just raised
\* DependencyNotFoundError: s1 was left and entered again.
C37_Witness ==
    /\ with_blocks[Caller] = <<"s1">>
    /\ scope_stack[Caller] = <<"s1">>
    /\ is_active["s1"]
    /\ sev.fn \in {"getitem", "resolve_dependency"}
    /\ sev.key = "a"
    /\ sev.kind = "raise"
    /\ sev.exc = Exc("DependencyNotFoundError", "lookup", "a")

\* In this scenario a lookup of "a" returns only while s1 still holds it,
\* that is, before the first exit of s1.
ReturnedOnlyBeforeExit ==
    (sev.fn \in {"getitem", "resolve_dependency"} /\ sev.key = "a" /\ sev.kind = "return")
        => scope_registry["s1"]["a"].kind = "resolver"


\* The step ends, with a value, the lookup of k that the wrapper started for
\* one of its Inject parameters.
WrapperLookupReturns(k) ==
    /\ wrapper[Caller].pc \in {"defaults_value", "kwdefaults_value"}
    /\ TopLevelLookup(k)
    /\ stack'[Caller] = <<>>
    /\ ev'.t = Caller /\ ev'.kind = "return"

\* How often one call of the decorated function needs k: once for every
\* Inject[k] parameter, and once for every Inject parameter whose resolver
\* has an Inject[k] parameter itself.
NeedsPerCall(k) ==
    LET P == original_func.params
        own == {i \in 1..Len(P) : P[i].default = Inject(k)}
        dep == {i \in 1..Len(P) :
                  /\ isinstance_Inject(P[i].default)
                  /\ LET r == registry[get_inject_key(P[i].default)].resolver
                     IN  \E j \in 1..Len(r.params) : r.params[j].default = Inject(k)}
    IN  Cardinality(own) + Cardinality(dep)

\* C38: the wrapper resolves its Inject parameters at each call: what the
\* body receives for a parameter not passed explicitly is what the store
\* holds for the key when the call is made (so also a key registered after
\* the decoration), and a resolver that is not evaluate_once is invoked in
\* every call, once for each time the call needs it, the body receiving the
\* object of the latest invocation.
C38_ResolvedAtEachCall ==
    /\ [](original_func /= NoFunc => \A k \in Keys : calls[k] <= NeedsPerCall(k) * ncalls)
    /\ [][\A k \in Keys :
            (WrapperLookupReturns(k) /\ registry[k].kind = "resolver" /\ ~registry[k].evaluate_once)
                => /\ calls'[k] = calls[k] + 1
                   /\ ev'.val.tag = "object" /\ ev'.val.key = k /\ ev'.val.n = calls'[k]]_vars
    /\ [][(WrapperEnds /\ wev'.kind = "return") =>
            \A i \in 1..Len(original_func.params) :
                LET p == original_func.params[i]
                    K == get_inject_key(p.default)
                    got == wev'.val.args[i]
                IN  (isinstance_Inject(p.default) /\ p.name \notin wev'.explicit)
                        => /\ registry[K].kind = "value" => got = registry[K].value
                           /\ registry[K].kind = "resolver"
                                 => (got.tag = "object" /\ got.key = K /\ got.n = calls[K])]_vars

\* The second call of f(x=Inject["a"]) has returned with the object of the
\* first invocation of the resolver of "a": the first call did not invoke
\* it, so "a" was registered after it, and after the decoration.
C38_Witness ==
    /\ WrapperEnded /\ wev.kind = "return" /\ wev.explicit = {}
    /\ ncalls = 2
    /\ original_func.params = <<Param("x", "POSITIONAL_OR_KEYWORD", Inject("a"))>>
    /\ registry["a"] = _StoreResolverWithArgs(Plain("return"), FALSE)
    /\ calls["a"] = 1
    /\ wev.val.args = <<Obj("a", 1, <<>>)>>

\* Two calls after the registration: the second one receives the object of
\* the second invocation.
SecondCallInvokedAgain ==
    /\ WrapperEnded /\ wev.kind = "return" /\ wev.explicit = {}
    /\ ncalls = 2
    /\ registry["a"] = _StoreResolverWithArgs(Plain("return"), FALSE)
    /\ calls["a"] = 2
    /\ wev.val.args = <<Obj("a", 2, <<>>)>>


\* The entry a registration frame writes.
EntryOf(f) ==
    IF f.fn = "register_value" THEN ValueEntry(f.value)
    ELSE _StoreResolverWithArgs(f.resolver, f.evaluate_once)

\* The registration of thread t ends in the step.
RegistrationEnds(t) ==
    /\ stack[t] /= <<>>
    /\ Top(t).fn \in RegisterFns
    /\ stack'[t] = <<>>

\* C39: registrations made by several threads at once.  A registration
\* writes only while its key is absent, so of the registrations of one key
\* that overlap one succeeds; it stores the entry of its own caller and
\* touches no other key; every other one raises the duplicate error and
\* leaves the registry as it is; a registration is refused as a duplicate only
\* when its own key is registered, so registrations of distinct keys do not
\* refuse one another; and a lookup of a registered value returns the value
\* stored under its key.
C39_ConcurrentRegistration ==
    /\ [](\A t \in Threads, u \in Threads :
            /\ (stack[t] /= <<>> /\ Top(t).fn \in RegisterFns /\ Top(t).pc = "write")
                  => registry[Top(t).key].kind = "absent"
            /\ (/\ t /= u
                /\ stack[t] /= <<>> /\ Top(t).fn \in RegisterFns /\ Top(t).pc = "write"
                /\ stack[u] /= <<>> /\ Top(u).fn \in RegisterFns)
                  => Top(u).pc = "lock")
    /\ [](Ends("getitem", "return") /\ registry[ev.key].kind = "value"
            => ev.val = registry[ev.key].value)
    /\ [][\A t \in Threads :
            /\ RegistrationEnds(t) =>
                  LET f == Top(t) IN
                  /\ ev'.t = t /\ ev'.fn = f.fn /\ ev'.key = f.key
                  /\ ev'.kind = "return" =>
                        /\ registry[f.key].kind = "absent"
                        /\ registry' = [registry EXCEPT ![f.key] = EntryOf(f)]
                  /\ ev'.kind = "raise" =>
                        /\ registry' = registry
                        /\ (ev'.exc = Exc("ValueError", "duplicate", f.key))
                              <=> registry[f.key].kind /= "absent"
            /\ (/\ stack[t] /= <<>> /\ Top(t).fn = "register_value" /\ Top(t).pc = "body"
                /\ registry[Top(t).key].kind = "absent"
                /\ stack'[t] /= stack[t])
                  => (stack'[t] /= <<>> /\ Top(t)'.pc = "write" /\ lock'.owner = t)]_vars

\* Two threads register the same key at once: one has just succeeded and its
\* entry is stored, the registration of the other, issued before, waits for
\* the lock.
C39_Witness ==
    \E k \in Keys, t \in Threads, u \in Threads :
        /\ t /= u
        /\ Ends("register_value", "return") /\ ev.key = k /\ ev.t = t
        /\ registry[k] = ValueEntry(Val("v1"))
        /\ Len(stack[u]) = 1 /\ Top(u).fn = "register_resolver" /\ Top(u).key = k
        /\ Top(u).pc = "lock"

\* The registration that waited has been refused; the entry is still the one
\* of the thread that succeeded, and no resolver was called.
LoserRefused ==
    \E k \in Keys, u \in Threads :
        /\ Ends("register_resolver", "raise") /\ ev.key = k /\ ev.t = u
        /\ ev.exc = Exc("ValueError", "duplicate", k)
        /\ registry[k] = ValueEntry(Val("v1"))
        /\ nops = 2
        /\ \A j \in Keys : j /= k => registry[j].kind = "absent"

\* Two threads register distinct keys at once: both entries are stored.
DistinctKeysRegistered ==
    /\ Ends("register_value", "return") /\ ev.key = "b" /\ ev.t = "t2"
    /\ nops = 2
    /\ registry["a"].kind = "resolver"
    /\ registry["b"] = ValueEntry(Val("v1"))


(***************************************************************************)
(* Lookups that fail after a dependency was resolved: a resolver whose     *)
(* Inject[d] parameter resolves and whose body then raises.                *)
(***************************************************************************)
\* def resolver(dep=Inject[d]): raise ValueError
FailingWithInject(d) ==
    Resolver(<<Param("dep", "POSITIONAL_OR_KEYWORD", Inject(d))>>, "ValueError")

FailedKeys == {"a", "b"}
FailedRegistrations ==
    {<<FailingWithInject("b"), FALSE>>, <<FailingWithInject("b"), TRUE>>,
     <<Plain("return"), TRUE>>, <<Plain("return"), FALSE>>}

NextFailed ==
    \/ register_value(Caller, {"b"}, {"v1"})
    \/ register_resolver(Caller, FailedKeys, FailedRegistrations)
    \/ __getitem__(Caller, FailedKeys)
    \/ acquire(Caller)
    \/ register_value_check(Caller)
    \/ register_value_write(Caller)
    \/ register_resolver_check(Caller)
    \/ register_resolver_write(Caller)
    \/ __getitem___check(Caller)
    \/ _resolve_param(Caller)
    \/ _resolve_call(Caller)

SpecFailed == Init /\ [][NextFailed]_vars

\* The first lookup made on the store has just raised to its caller: every
\* operation before it was a registration of a resolver that succeeded, so
\* the cache was empty when the lookup began.
FirstLookupFailed ==
    /\ stack[Caller] = <<>>
    /\ Ends("getitem", "raise") /\ ev.depth = 1
    /\ \A k \in Keys : registry[k].kind /= "value"
    /\ nops = Cardinality({k \in Keys : registry[k].kind = "resolver"}) + 1

\* C40: a lookup that raises leaves the cache as it found it, also when
\* evaluate_once dependencies of the key were resolved on the way: after the
\* first lookup made on a store without values has failed, the cache is as
\* empty as it was before.
C40_FailedLookupLeavesCache ==
    FirstLookupFailed => \A k \in Keys : cache[k] = NoVal

\* What holds: the key whose resolver raised is not cached, and what the
\* cache holds after the failure is the object that the resolver of an
\* evaluate_once dependency returned during it.
FailedKeyNotCached ==
    FirstLookupFailed =>
        /\ cache[ev.key] = NoVal
        /\ \A k \in Keys : cache[k] /= NoVal =>
              (IsOnce(k) /\ returns[k] = 1 /\ cache[k] = Obj(k, 1, <<>>))
FailedKeyNotCachedReached ==
    /\ FirstLookupFailed
    /\ ev.key = "a" /\ ev.exc = Exc("ValueError", "body", "a")
    /\ registry["b"] = _StoreResolverWithArgs(Plain("return"), TRUE)
    /\ cache["b"] = Obj("b", 1, <<>>)

\* When the dependency is not evaluate_once, the failed lookup leaves the
\* cache empty.
FailedLookupNotOnceDependency ==
    (FirstLookupFailed /\ \A k \in Keys : ~IsOnce(k) \/ k = ev.key)
        => \A k \in Keys : cache[k] = NoVal
FailedLookupNotOnceDependencyReached ==
    /\ FirstLookupFailed
    /\ ev.key = "a" /\ ev.exc = Exc("ValueError", "body", "a")
    /\ registry["b"] = _StoreResolverWithArgs(Plain("return"), FALSE)
    /\ calls["b"] = 1

====
